---------------------------- MODULE Spec2Model ----------------------------
(***************************************************************************)
(* Model of the Eve chat client: the service module (initializeChat,       *)
(* startChatWithHistory, sendMessageToEve, generateWithGradio,             *)
(* generateVisualSelfie) and the App component's handlers and effects.     *)
(*                                                                         *)
(* Strings are sequences of one-character strings, so that trim, the       *)
(* regular expressions and substring tests are computed, not assumed.      *)
(* An absent (undefined / null) string is the empty sequence: every test   *)
(* the code applies to such a value (`if (h.image)`, `h.text || "..."`,   *)
(* `!endpoint`) treats undefined, null and "" alike.                       *)
(***************************************************************************)
EXTENDS Integers, Sequences, FiniteSets, TLC

(***************************************************************************)
(* Bounds of the model.                                                    *)
(***************************************************************************)
MaxLogLen == 3        \* longest message log drawn for the reconciliation specification
MaxReloads == 1       \* page reloads in a run
MaxPending == 2       \* unsettled operations of the storage specification

(***************************************************************************)
(* String helpers (JavaScript String methods used by the source).          *)
(***************************************************************************)
Sp == " "
Nl == "\n"

IsSpaceChar(c) == c \in {Sp, Nl}

WordChars ==
    {"a", "b", "c", "d", "e", "g", "h", "i", "m", "n", "p", "r", "s", "t",
     "u", "v", "w", "x", "y", "A", "C", "E", "F", "I", "L", "S", "Q", "_"}

StartsWithAt(s, i, p) ==
    /\ i >= 1
    /\ i + Len(p) - 1 <= Len(s)
    /\ \A k \in 1..Len(p) : s[i + k - 1] = p[k]

StartsWith(s, p) == StartsWithAt(s, 1, p)

Includes(s, p) == \E i \in 1..(Len(s) + 1) : StartsWithAt(s, i, p)

Drop(s, n) == IF n >= Len(s) THEN <<>> ELSE SubSeq(s, n + 1, Len(s))

Take(s, n) == IF n <= 0 THEN <<>> ELSE SubSeq(s, 1, IF n > Len(s) THEN Len(s) ELSE n)

RECURSIVE TrimStart(_)
TrimStart(s) ==
    IF s # <<>> /\ IsSpaceChar(Head(s)) THEN TrimStart(Tail(s)) ELSE s

RECURSIVE TrimEnd(_)
TrimEnd(s) ==
    IF s # <<>> /\ IsSpaceChar(s[Len(s)]) THEN TrimEnd(SubSeq(s, 1, Len(s) - 1)) ELSE s

Trim(s) == TrimEnd(TrimStart(s))

(***************************************************************************)
(* String constants of the source.                                         *)
(***************************************************************************)
DataScheme == <<"d", "a", "t", "a", ":">>
DataImagePrefix == <<"d", "a", "t", "a", ":", "i", "m", "a", "g", "e", "/">>
Base64Marker == <<";", "b", "a", "s", "e", "6", "4", ",">>
DefaultMimeType == <<"i", "m", "a", "g", "e", "/", "j", "p", "e", "g">>
Placeholder == <<".", ".", ".">>

Tiers == {"free", "pro"}

(***************************************************************************)
(* getMimeType: the match of "data:" at the start, a greedy run of any     *)
(* characters but newline, and ";base64,"; the run (group 1) or else the   *)
(* default.  Greedy: the longest run that is followed by ";base64,".       *)
(***************************************************************************)
MimeEnds(dataUrl) ==
    {j \in (Len(DataScheme) + 1)..(Len(dataUrl) + 1) :
        /\ StartsWithAt(dataUrl, j, Base64Marker)
        /\ \A k \in (Len(DataScheme) + 1)..(j - 1) : dataUrl[k] # Nl}

getMimeType(dataUrl) ==
    IF StartsWith(dataUrl, DataScheme) /\ MimeEnds(dataUrl) # {}
    THEN LET j == CHOOSE x \in MimeEnds(dataUrl) : \A y \in MimeEnds(dataUrl) : y <= x
         IN  SubSeq(dataUrl, Len(DataScheme) + 1, j - 1)
    ELSE DefaultMimeType

(***************************************************************************)
(* image.replace of the prefix "data:image/", one or more word characters  *)
(* and ";base64," by "": the prefix is removed when present, otherwise the *)
(* string is returned whole.                                               *)
(***************************************************************************)
RECURSIVE WordRun(_, _)
WordRun(s, i) ==
    IF i <= Len(s) /\ s[i] \in WordChars THEN 1 + WordRun(s, i + 1) ELSE 0

StripDataImagePrefix(s) ==
    LET w == WordRun(s, Len(DataImagePrefix) + 1)
    IN  IF /\ StartsWith(s, DataImagePrefix)
           /\ w >= 1
           /\ StartsWithAt(s, Len(DataImagePrefix) + w + 1, Base64Marker)
        THEN Drop(s, Len(DataImagePrefix) + w + Len(Base64Marker))
        ELSE s

(***************************************************************************)
(* startChatWithHistory, lines 325-354: the flatten loop.                  *)
(***************************************************************************)
UserImageParts(h) ==
    IF h.image # <<>> /\ StartsWith(h.image, DataScheme)
    THEN LET mimeType == getMimeType(h.image)
             data == StripDataImagePrefix(h.image)
         IN  IF data # <<>> /\ mimeType # <<>>
             THEN <<[inlineData |-> [mimeType |-> mimeType, data |-> data]]>>
             ELSE <<>>
    ELSE <<>>

UserTextParts(h) ==
    IF h.text # <<>> /\ Trim(h.text) # <<>> THEN <<[text |-> h.text]>> ELSE <<>>

UserParts(h) == UserImageParts(h) \o UserTextParts(h)

\* lines 349-353 without the placeholder: the text is passed as it is
ModelPartsAsIs(h) == <<[text |-> h.text]>>

ModelParts(h) == <<[text |-> IF h.text # <<>> THEN h.text ELSE Placeholder]>>

\* EntryTurns without the isError guard of line 326: every entry is flattened
EntryTurnsWithErrors(h) ==
    IF h.role = "user"
    THEN IF Len(UserParts(h)) > 0
         THEN <<[role |-> "user", parts |-> UserParts(h)]>>
         ELSE <<>>
    ELSE IF h.role = "model"
         THEN <<[role |-> "model", parts |-> ModelParts(h)]>>
    ELSE <<>>

EntryTurns(h) ==
    IF h.isError THEN <<>>
    ELSE IF h.role = "user"
         THEN IF Len(UserParts(h)) > 0
              THEN <<[role |-> "user", parts |-> UserParts(h)]>>
              ELSE <<>>
    ELSE IF h.role = "model"
         THEN <<[role |-> "model", parts |-> ModelParts(h)]>>
    ELSE <<>>

RECURSIVE FlattenHistory(_)
FlattenHistory(history) ==
    IF history = <<>> THEN <<>>
    ELSE EntryTurns(Head(history)) \o FlattenHistory(Tail(history))

(***************************************************************************)
(* Lines 356-371: the merge pass.  MergeLoop is the for loop from index i  *)
(* with the running currentTurn and the mergedHistory built so far.        *)
(***************************************************************************)
\* the merge loop with line 362 replaced by an assignment: the later turn of a
\* run replaces the earlier one instead of extending it
RECURSIVE MergeLoopOverwrite(_, _, _, _)
MergeLoopOverwrite(geminiHistory, i, currentTurn, mergedHistory) ==
    IF i > Len(geminiHistory)
    THEN Append(mergedHistory, currentTurn)
    ELSE LET nextTurn == geminiHistory[i]
         IN  IF nextTurn.role = currentTurn.role
             THEN MergeLoopOverwrite(geminiHistory, i + 1, nextTurn, mergedHistory)
             ELSE MergeLoopOverwrite(geminiHistory, i + 1, nextTurn,
                                     Append(mergedHistory, currentTurn))

RECURSIVE MergeLoop(_, _, _, _)
MergeLoop(geminiHistory, i, currentTurn, mergedHistory) ==
    IF i > Len(geminiHistory)
    THEN Append(mergedHistory, currentTurn)
    ELSE LET nextTurn == geminiHistory[i]
         IN  IF nextTurn.role = currentTurn.role
             THEN MergeLoop(geminiHistory, i + 1,
                            [currentTurn EXCEPT !.parts = @ \o nextTurn.parts],
                            mergedHistory)
             ELSE MergeLoop(geminiHistory, i + 1, nextTurn,
                            Append(mergedHistory, currentTurn))

\* lines 356-371 left out: the flattened turns are handed on unmerged
MergePassSkipped(geminiHistory) == geminiHistory

MergePass(geminiHistory) ==
    IF Len(geminiHistory) > 0
    THEN MergeLoop(geminiHistory, 2, geminiHistory[1], <<>>)
    ELSE <<>>

(***************************************************************************)
(* Lines 373-376: drop leading model turns.  Lines 378-381: a trailing     *)
(* user turn gets a dummy model turn.                                      *)
(***************************************************************************)
\* lines 373-376 as a single shift without the test of the role
DropFirstTurn(mergedHistory) ==
    IF Len(mergedHistory) > 0 THEN Tail(mergedHistory) ELSE mergedHistory

RECURSIVE ShiftLeadingModel(_)
ShiftLeadingModel(mergedHistory) ==
    IF Len(mergedHistory) > 0 /\ mergedHistory[1].role = "model"
    THEN ShiftLeadingModel(Tail(mergedHistory))
    ELSE mergedHistory

\* lines 378-381 left out: a trailing user turn stays last
KeepTrailingUser(mergedHistory) == mergedHistory

PushDummyModel(mergedHistory) ==
    IF Len(mergedHistory) > 0 /\ mergedHistory[Len(mergedHistory)].role = "user"
    THEN Append(mergedHistory, [role |-> "model", parts |-> <<[text |-> Placeholder]>>])
    ELSE mergedHistory

ReconcileHistory(history) ==
    PushDummyModel(ShiftLeadingModel(MergePass(FlattenHistory(history))))

(***************************************************************************)
(* initializeChat.  The SDK calls (new GoogleGenAI, ai.chats.create) may   *)
(* throw; what they do is the environment's choice:                        *)
(*   ok               line 37 creates the context                          *)
(*   historyRejected  line 37 throws, line 54 creates an empty context     *)
(*   createFails      line 37 and line 54 throw                            *)
(*   clientFails      line 31 and line 53 throw (currentTier not yet set)  *)
(* The result is the new chatSession and currentTier and whether the call  *)
(* threw.                                                                  *)
(***************************************************************************)
InitOutcomes == {"ok", "historyRejected", "createFails", "clientFails"}

Throwing(outcome) == outcome \in {"createFails", "clientFails"}

\* the outcomes of a call that is made only when the call before it threw
RetryOutcomes(outcome) == IF Throwing(outcome) THEN InitOutcomes ELSE {"ok"}

NoSession == [live |-> FALSE]

\* a live context: the tier whose chat model it was created with and the
\* history it was seeded with
NewSession(tier, history) == [live |-> TRUE, model |-> tier, history |-> history]

initializeChat(tier, history, outcome, session, curTier) ==
    CASE outcome = "ok" ->
            [chatSession |-> NewSession(tier, history),
             currentTier |-> tier, threw |-> FALSE]
      [] outcome = "historyRejected" ->
            [chatSession |-> NewSession(tier, <<>>),
             currentTier |-> tier, threw |-> FALSE]
      [] outcome = "createFails" ->
            [chatSession |-> session, currentTier |-> tier, threw |-> TRUE]
      [] OTHER ->
            [chatSession |-> session, currentTier |-> curTier, threw |-> TRUE]

(***************************************************************************)
(* A log restored from a backup file is not validated beyond being an      *)
(* array (App.tsx 227-229), so an entry's text need not be a string.       *)
(* NonString stands for such a value (a JSON number, say): it is truthy    *)
(* and has no trim method, so line 343 throws a TypeError on a user entry  *)
(* that carries it and is not flagged as an error (line 326 skips those).  *)
(***************************************************************************)
NonString == <<"<not a string>">>

ReconcileThrows(history) ==
    \E k \in 1..Len(history) :
        /\ ~history[k].isError
        /\ history[k].role = "user"
        /\ history[k].text = NonString

(***************************************************************************)
(* startChatWithHistory(tier, history): o1 is the outcome of the first     *)
(* initializeChat call it makes (line 317 or 383, or line 386 when the     *)
(* reconciliation itself threw), o2 of the one in the catch block after    *)
(* the call of line 383 threw.  handed is the turn sequence passed at      *)
(* line 317 / 383.                                                         *)
(***************************************************************************)
startChatWithHistory(tier, history, o1, o2, session, curTier) ==
    IF Len(history) = 0
    THEN LET r == initializeChat(tier, <<>>, o1, session, curTier)
         IN  [chatSession |-> r.chatSession, currentTier |-> r.currentTier,
              threw |-> r.threw, handed |-> <<>>, caught |-> FALSE,
              reconcileThrew |-> FALSE]
    ELSE IF ReconcileThrows(history)
    THEN LET q == initializeChat(tier, <<>>, o1, session, curTier)
         IN  [chatSession |-> q.chatSession, currentTier |-> q.currentTier,
              threw |-> q.threw, handed |-> <<>>, caught |-> TRUE,
              reconcileThrew |-> TRUE]
    ELSE LET mergedHistory == ReconcileHistory(history)
             r == initializeChat(tier, mergedHistory, o1, session, curTier)
         IN  IF ~r.threw
             THEN [chatSession |-> r.chatSession, currentTier |-> r.currentTier,
                   threw |-> FALSE, handed |-> mergedHistory, caught |-> FALSE,
                   reconcileThrew |-> FALSE]
             ELSE LET q == initializeChat(tier, <<>>, o2, r.chatSession, r.currentTier)
                  IN  [chatSession |-> q.chatSession, currentTier |-> q.currentTier,
                       threw |-> q.threw, handed |-> mergedHistory, caught |-> TRUE,
                       reconcileThrew |-> FALSE]

(***************************************************************************)
(* Fixed texts of the source.  A fixed run of ordinary characters that no  *)
(* operation of the program looks inside is written as one element.        *)
(***************************************************************************)
SelfieOpen == <<"[", "S", "E", "L", "F", "I", "E">>
DefaultCue == <<"l", "o", "o", "k", "i", "n", "g", Sp, "a", "t", Sp, "t", "h", "e", Sp,
                "c", "a", "m", "e", "r", "a">>
UnavailableNote ==
    <<Nl, Nl, "(I tried to show you, but my visual cortex isn't connected. Please configure the Gradio endpoint in settings!)">>
ConnectionInterrupted == <<"Connection interrupted. I'm still here, though.">>
UnexpectedError == <<"An unexpected error occurred. Please try again.">>
NeedEndpoint ==
    <<"I need a visual cortex connection to visualize that. Please configure the Gradio endpoint in settings.">>
SignalLost ==
    <<"I tried to connect to the visual cortex, but the signal was lost. Please check your Gradio endpoint and ensure the space is running. Error: ">>
Visualized == <<"Here is what I visualized for you.">>
Evolved == <<"I've evolved the visual based on your request.">>

(***************************************************************************)
(* The marker pattern of lines 282 and 290: "[SELFIE", then optionally     *)
(* ":" with greedy whitespace and a lazy run of characters other than      *)
(* newline, then "]".  The lazy run ends at the first "]"; whitespace      *)
(* cannot hold a "]" and the run cannot hold a newline, so with the colon  *)
(* the pattern matches at i exactly when the text between the whitespace   *)
(* after the colon and the first "]" has no newline, and that text is      *)
(* group 1.  Without the colon the next character must be "]".             *)
(***************************************************************************)
RECURSIVE SpaceRun(_, _)
SpaceRun(s, i) ==
    IF i <= Len(s) /\ IsSpaceChar(s[i]) THEN 1 + SpaceRun(s, i + 1) ELSE 0

CloseAfter(s, i) == {e \in i..Len(s) : s[e] = "]"}

FirstClose(s, i) == CHOOSE e \in CloseAfter(s, i) : \A f \in CloseAfter(s, i) : e <= f

NoMatch == [found |-> FALSE]

MatchAt(s, i) ==
    LET p == i + Len(SelfieOpen)
    IN  IF ~StartsWithAt(s, i, SelfieOpen) \/ p > Len(s) THEN NoMatch
        ELSE IF s[p] = "]"
             THEN [found |-> TRUE, last |-> p, group |-> <<>>]
        ELSE IF s[p] = ":" /\ CloseAfter(s, p + 1) # {}
             THEN LET start == p + 1 + SpaceRun(s, p + 1)
                      close == FirstClose(s, p + 1)
                  IN  IF \A k \in start..(close - 1) : s[k] # Nl
                      THEN [found |-> TRUE, last |-> close,
                            group |-> SubSeq(s, start, close - 1)]
                      ELSE NoMatch
        ELSE NoMatch

MatchStarts(s) == {i \in 1..Len(s) : MatchAt(s, i).found}

\* replyText.match(...): the leftmost match, or none
SelfieMatch(s) ==
    IF MatchStarts(s) = {} THEN NoMatch
    ELSE MatchAt(s, CHOOSE i \in MatchStarts(s) : \A j \in MatchStarts(s) : i <= j)

\* replyText.replace(.../g, ""): every match, left to right, is removed
RECURSIVE StripFrom(_, _)
StripFrom(s, i) ==
    IF i > Len(s) THEN <<>>
    ELSE IF MatchAt(s, i).found THEN StripFrom(s, MatchAt(s, i).last + 1)
    ELSE <<s[i]>> \o StripFrom(s, i + 1)

\* replace without the g flag: only the leftmost match is removed
StripFirstMarker(s) ==
    IF MatchStarts(s) = {} THEN s
    ELSE LET i == CHOOSE x \in MatchStarts(s) : \A y \in MatchStarts(s) : x <= y
         IN  SubSeq(s, 1, i - 1) \o SubSeq(s, MatchAt(s, i).last + 1, Len(s))

StripMarkers(s) == StripFrom(s, 1)

\* line 294 without the trim test
IsEmptyEndpoint(endpoint) == endpoint = <<>>

IsBlank(endpoint) == endpoint = <<>> \/ Trim(endpoint) = <<>>

(***************************************************************************)
(* sendMessageToEve, lines 278-302: the visual trigger protocol handler.   *)
(* visualPrompt <<>> is undefined.                                         *)
(***************************************************************************)
TriggerProtocol(resultText, gradioEndpoint) ==
    LET selfieMatch == SelfieMatch(resultText)
    IN  IF ~selfieMatch.found
        THEN [text |-> resultText, visualPrompt |-> <<>>]
        ELSE LET cue == IF selfieMatch.group # <<>> THEN selfieMatch.group ELSE DefaultCue
                 cleaned == Trim(StripMarkers(resultText))
             IN  IF IsBlank(gradioEndpoint)
                 THEN [text |-> cleaned \o UnavailableNote, visualPrompt |-> <<>>]
                 ELSE [text |-> cleaned, visualPrompt |-> cue]

(***************************************************************************)
(* message.toLowerCase() and the self-portrait heuristic of line 239.      *)
(***************************************************************************)
LowerOf(c) ==
    CASE c = "A" -> "a" [] c = "C" -> "c" [] c = "E" -> "e" [] c = "F" -> "f"
      [] c = "I" -> "i" [] c = "L" -> "l" [] c = "S" -> "s" [] c = "Q" -> "q"
      [] c = "Y" -> "y" [] OTHER -> c

ToLowerCase(s) == [i \in 1..Len(s) |-> LowerOf(s[i])]

WantsSelfPortrait(message) ==
    \/ Includes(ToLowerCase(message), <<"s", "e", "l", "f", "i", "e">>)
    \/ Includes(ToLowerCase(message), <<"y", "o", "u">>)

(***************************************************************************)
(* generateWithGradio.  What the backend does is the environment's choice: *)
(* the import, the connect or the predict call throws, or predict returns  *)
(* result.data, a list of items (an object with a url, a string, or        *)
(* anything else).  The result is the returned url or a throw with its     *)
(* message.                                                                *)
(***************************************************************************)
ImageUrl == <<"h", "t", "t", "p", "s", ":", "/", "/", "x", "/", "y", ".", "p", "n", "g">>
NotConfigured == <<"Gradio endpoint not configured.">>
FailedPrefix == <<"Gradio connection or prediction failed: ">>
NoValidUrl == <<"Gradio prediction returned no valid image URL.">>
BackendDown == <<"Could not connect">>

GradioOutcomes ==
    {[call |-> "throws"],
     [call |-> "returns", data |-> <<>>],
     [call |-> "returns", data |-> <<[type |-> "object", url |-> ImageUrl]>>],
     [call |-> "returns", data |-> <<[type |-> "object", url |-> <<>>]>>],
     [call |-> "returns", data |-> <<[type |-> "string", value |-> ImageUrl]>>],
     [call |-> "returns", data |-> <<[type |-> "string", value |-> <<>>]>>]}

generateWithGradio(endpoint, outcome) ==
    IF IsBlank(endpoint)
    THEN [threw |-> TRUE, message |-> NotConfigured, url |-> <<>>]
    ELSE IF outcome.call = "throws"
         THEN [threw |-> TRUE, message |-> FailedPrefix \o BackendDown, url |-> <<>>]
    ELSE LET data == outcome.data
         IN  IF Len(data) > 0 /\ data[1].type = "object" /\ data[1].url # <<>>
             THEN [threw |-> FALSE, message |-> <<>>, url |-> data[1].url]
             ELSE IF Len(data) > 0 /\ data[1].type = "string"
             THEN [threw |-> FALSE, message |-> <<>>, url |-> data[1].value]
             ELSE [threw |-> TRUE, message |-> FailedPrefix \o NoValidUrl, url |-> <<>>]

\* generateVisualSelfie: the prompt is built, generateWithGradio is awaited,
\* and its error is rethrown
generateVisualSelfie(description, gradioEndpoint, outcome) ==
    generateWithGradio(gradioEndpoint, outcome)

\* e.message.replace('Gradio connection or prediction failed: ', '')
RemoveFailedPrefix(message) ==
    IF StartsWith(message, FailedPrefix) THEN Drop(message, Len(FailedPrefix)) ELSE message

(***************************************************************************)
(* processImageResponse: the last inlineData part is the image, the text   *)
(* parts are concatenated, the fallback replaces an empty text.            *)
(***************************************************************************)
PngMime == <<"i", "m", "a", "g", "e", "/", "p", "n", "g">>

RECURSIVE ScanParts(_, _, _)
ScanParts(parts, image, text) ==
    IF parts = <<>> THEN [image |-> image, text |-> text]
    ELSE LET part == Head(parts)
         IN  IF "inlineData" \in DOMAIN part
             THEN ScanParts(Tail(parts),
                            DataScheme
                              \o (IF part.inlineData.mimeType # <<>>
                                  THEN part.inlineData.mimeType ELSE PngMime)
                              \o Base64Marker \o part.inlineData.data,
                            text)
             ELSE IF "text" \in DOMAIN part /\ part.text # <<>>
             THEN ScanParts(Tail(parts), image, text \o part.text)
             ELSE ScanParts(Tail(parts), image, text)

processImageResponse(responseParts, fallbackText) ==
    LET r == ScanParts(responseParts, <<>>, <<>>)
    IN  [text |-> IF r.text # <<>> THEN r.text ELSE fallbackText,
         image |-> r.image, visualPrompt |-> <<>>, isError |-> FALSE]

(***************************************************************************)
(* sendMessageToEve, lines 216, 235 and 260: the route of a submit.        *)
(***************************************************************************)
\* the route table with the flag of line 216 left out: every attachment is
\* treated as an edit request
RouteByAttachment(attachmentBase64, forceImageGeneration) ==
    IF attachmentBase64 # <<>> THEN "IMAGE_EDIT"
    ELSE IF forceImageGeneration THEN "IMAGE_GENERATE"
    ELSE "CHAT"

Route(attachmentBase64, forceImageGeneration) ==
    IF attachmentBase64 # <<>> /\ forceImageGeneration THEN "IMAGE_EDIT"
    ELSE IF attachmentBase64 = <<>> /\ forceImageGeneration THEN "IMAGE_GENERATE"
    ELSE "CHAT"

\* lines 261-269: the content of the forwarded user turn
MsgContent(message, attachmentBase64) ==
    IF attachmentBase64 # <<>>
    THEN <<[inlineData |-> [mimeType |-> getMimeType(attachmentBase64),
                            data |-> StripDataImagePrefix(attachmentBase64)]],
           [text |-> message]>>
    ELSE <<[text |-> message]>>

\* the catch block of lines 304-311 throwing the error on
Rethrown == [thrown |-> TRUE]

\* lines 304-311: the result returned by the catch block
ErrorResult == [text |-> ConnectionInterrupted, image |-> <<>>, visualPrompt |-> <<>>,
                isError |-> TRUE]

(***************************************************************************)
(* State.                                                                  *)
(*   App.tsx component state: messages, modelTier, isLoaded, inputText,    *)
(*     attachment, isThinking, isImageEvolutionMode, gradioEndpoint        *)
(*   service module state: chatSession, currentTier                        *)
(*   now: the value Date.now() returns                                     *)
(*   send: the submit in flight (the position of handleSendMessage /       *)
(*     sendMessageToEve and the values its closure captured)               *)
(*   jobs: the generateVisualSelfie promises not yet settled               *)
(*   effectPending: the [isLoaded, modelTier, messages] effect of lines    *)
(*     82-88 has a changed dependency and has not run yet                  *)
(*   wipe, restore: the position of handleWipeMemory / handleImportBackup  *)
(*   used: how many submits, wipes and restores were accepted so far       *)
(*   lastEvent: what the last step did (history variable)                  *)
(***************************************************************************)
VARIABLES messages, modelTier, isLoaded, inputText, attachment, isThinking,
          isImageEvolutionMode, gradioEndpoint, chatSession, currentTier,
          now, send, jobs, effectPending, wipe, restore, used, lastEvent, idb

appVars == <<messages, modelTier, isLoaded, inputText, attachment, isThinking,
             isImageEvolutionMode, gradioEndpoint>>
inputVars == <<inputText, attachment, isImageEvolutionMode>>
serviceVars == <<chatSession, currentTier>>
vars == <<messages, modelTier, isLoaded, inputText, attachment, isThinking,
          isImageEvolutionMode, gradioEndpoint, chatSession, currentTier,
          now, send, jobs, effectPending, wipe, restore, used, lastEvent, idb>>

(***************************************************************************)
(* storageService.ts: the durable store.  idb.sessions is the object store *)
(* 'sessions' of the database, a set of records with the key path 'id';    *)
(* idb.pending holds the persistence operations that were issued and have  *)
(* not settled yet, oldest first.  Every operation opens the database and  *)
(* then runs one readwrite transaction on the store: the open requests are *)
(* served in the order they were made and transactions on one store run in *)
(* the order they were created, so the operations take effect in the order *)
(* of issue.  Two fields record history: lost tells whether an operation   *)
(* has failed or was abandoned, wiped is the log the last wipe replaced.   *)
(***************************************************************************)
GLOBAL_SESSION_KEY == "global_session"

EmptyVault == [sessions |-> {}, pending |-> <<>>, lost |-> FALSE, wiped |-> <<>>]

\* line 49: the record saveSession puts (lastUpdated, which only feeds the
\* "last saved" display, is left out)
StoredSession(sessionMessages, tier) ==
    [id |-> GLOBAL_SESSION_KEY, messages |-> sessionMessages, tier |-> tier]

\* store.put with a key generated per record instead of the key path 'id'
GeneratedKeys == <<"key 1", "key 2", "key 3">>

AddRecord(sessions, data) ==
    IF Cardinality(sessions) < Len(GeneratedKeys)
    THEN sessions \cup {[data EXCEPT !.id = GeneratedKeys[Cardinality(sessions) + 1]]}
    ELSE sessions

\* line 65, store.put(data) on a store with the key path 'id': the record
\* with the key of data is replaced
Put(sessions, data) == {r \in sessions : r.id # data.id} \cup {data}

\* line 131, store.delete(key)
Delete(sessions, key) == {r \in sessions : r.id # key}

\* the operations as issued; by names the caller (the save effect, the
\* import handler, the wipe handler or a direct call)
saveSession(sessionMessages, tier, by) ==
    [kind |-> "put", data |-> StoredSession(sessionMessages, tier), by |-> by]

clearSession(by) == [kind |-> "delete", key |-> GLOBAL_SESSION_KEY, by |-> by]

restoreFromBackup(data, by) == saveSession(data.messages, data.tier, by)

Issue(vault, op) == [vault EXCEPT !.pending = Append(@, op)]

\* the transaction of the oldest pending operation completes
Applied(vault) ==
    LET op == Head(vault.pending)
    IN  [vault EXCEPT !.sessions = IF op.kind = "put" THEN Put(@, op.data)
                                   ELSE Delete(@, op.key),
                      !.pending = Tail(@)]

\* the oldest pending operation fails: the database cannot be opened or
\* the transaction is aborted
Abandoned(vault) == [vault EXCEPT !.pending = Tail(@), !.lost = TRUE]

\* lines 79-116, loadSession: the record under the fixed key, or null
NoStoredSession == [id |-> "null"]

loadSession(vault) ==
    IF \E r \in vault.sessions : r.id = GLOBAL_SESSION_KEY
    THEN CHOOSE r \in vault.sessions : r.id = GLOBAL_SESSION_KEY
    ELSE NoStoredSession

TsId(t) == [ts |-> t]            \* Date.now().toString()
NamedId(name) == [name |-> name] \* 'welcome', 'welcome_error'

Msg(id, role, text, image, isError, isImageLoading) ==
    [id |-> id, role |-> role, text |-> text, image |-> image,
     isError |-> isError, isImageLoading |-> isImageLoading]

Idle == [pc |-> "idle"]

\* a promise continuation of the submit is queued: only other queued
\* continuations and React's effects run before it, no event or reply
InMicrotask == send.pc \in {"afterInit", "returning"}

(***************************************************************************)
(* Inputs of the environment: what the user types and attaches, what the   *)
(* remote services answer.                                                 *)
(***************************************************************************)
MaxSubmits == 2       \* accepted submits
MaxWipes == 1         \* confirmed wipes
MaxRestores == 1      \* confirmed backup restores
MaxTime == 1          \* Date.now() runs from 0 to MaxTime

Hi == <<"h", "i">>
You == <<"Y", "o", "u">>
InputTexts == {<<>>, <<Sp>>, Hi, You}

Png == <<"d", "a", "t", "a", ":", "i", "m", "a", "g", "e", "/", "p", "n", "g",
         ";", "b", "a", "s", "e", "6", "4", ",", "Q", "Q">>
Endpoint == <<"e", "v", "e", "/", "f", "l", "u", "x">>
EndpointInputs == {<<>>, <<Sp>>, Endpoint}

Hey == <<"h", "e", "y", "!">>
HeySelfie == Hey \o <<Sp>> \o SelfieOpen \o <<":", Sp, "w", "a", "v", "i", "n", "g", "]">>
ChatReplies == {<<>>, Hey, HeySelfie}

\* the parts of an image-edit response (candidates[0].content.parts)
EditResponses ==
    {<<>>,
     <<[text |-> Hey]>>,
     <<[inlineData |-> [mimeType |-> <<>>, data |-> <<"Q", "Q">>]], [text |-> Hey]>>}

(***************************************************************************)
(* Init: the component is mounted, nothing is loaded yet.  The endpoint is *)
(* what loadGradioEndpoint finds in localStorage.                          *)
(***************************************************************************)
Init ==
    /\ messages = <<>>
    /\ modelTier = "free"
    /\ isLoaded = FALSE
    /\ inputText = <<>>
    /\ attachment = <<>>
    /\ isThinking = FALSE
    /\ isImageEvolutionMode = FALSE
    /\ gradioEndpoint \in {<<>>, Endpoint}
    /\ chatSession = NoSession
    /\ currentTier = "free"
    /\ now = 0
    /\ send = Idle
    /\ jobs = <<>>
    /\ effectPending = FALSE
    /\ wipe = Idle
    /\ restore = Idle
    /\ used = [submits |-> 0, wipes |-> 0, restores |-> 0, reloads |-> 0]
    /\ lastEvent = [op |-> "mount"]
    /\ idb = EmptyVault

(***************************************************************************)
(* App.tsx 48-79: hydrate.  A stored session with messages: its log and    *)
(* tier; no stored session, or one without messages: the welcome message;  *)
(* a failed load: the error notice.                                        *)
(***************************************************************************)
WelcomeText == <<"System Stable. Vault Storage Active (IndexedDB). Hello. I'm ready.">>
LoadErrorText == <<"Error loading session: ">>

hydrate(loadThrows) ==
    /\ ~isLoaded
    /\ LET session == loadSession(idb)
           found == ~loadThrows /\ session # NoStoredSession
                       /\ Len(session.messages) > 0
       IN  /\ messages' =
                 IF loadThrows
                 THEN <<Msg(NamedId("welcome_error"), "model", LoadErrorText, <<>>,
                            FALSE, FALSE)>>
                 ELSE IF found THEN session.messages
                 ELSE <<Msg(NamedId("welcome"), "model", WelcomeText, <<>>, FALSE, FALSE)>>
           /\ modelTier' = IF found THEN session.tier ELSE modelTier
    /\ isLoaded' = TRUE
    /\ effectPending' = TRUE
    /\ lastEvent' = [op |-> "hydrate"]
    /\ UNCHANGED <<inputVars, isThinking, gradioEndpoint, serviceVars,
                   now, send, jobs, wipe, restore, used, idb>>

\* hydration when loadSession cannot open the database: its catch block
\* (storageService.ts 112-115) returns null whatever is stored, and the log
\* becomes the welcome message
hydrateWithoutDatabase ==
    /\ ~isLoaded
    /\ messages' = <<Msg(NamedId("welcome"), "model", WelcomeText, <<>>, FALSE, FALSE)>>
    /\ isLoaded' = TRUE
    /\ effectPending' = TRUE
    /\ lastEvent' = [op |-> "hydrate"]
    /\ UNCHANGED <<modelTier, inputVars, isThinking, gradioEndpoint, serviceVars,
                   now, send, jobs, wipe, restore, used, idb>>

(***************************************************************************)
(* App.tsx 82-88: the effect that re-creates the chat session whenever     *)
(* isLoaded, modelTier or messages changed.  A rejected promise of         *)
(* startChatWithHistory is dropped.                                        *)
(***************************************************************************)
BrainConnection(o1, o2) ==
    /\ effectPending
    /\ isLoaded
    /\ LET sc == startChatWithHistory(modelTier, messages, o1, o2, chatSession, currentTier)
       IN  /\ chatSession' = sc.chatSession
           /\ currentTier' = sc.currentTier
           /\ lastEvent' = [op |-> "startChat", log |-> messages, handed |-> sc.handed,
                            threw |-> sc.threw, caught |-> sc.caught,
                            reconcileThrew |-> sc.reconcileThrew]
    /\ effectPending' = FALSE
    /\ UNCHANGED <<appVars, now, send, jobs, wipe, restore, used>>

(***************************************************************************)
(* Input handlers.  The controls are disabled while isThinking.            *)
(***************************************************************************)
UserEvent == isLoaded /\ ~InMicrotask

setInputText(text) ==
    /\ UserEvent
    /\ ~isThinking
    /\ text # inputText
    /\ inputText' = text
    /\ lastEvent' = [op |-> "input"]
    /\ UNCHANGED <<messages, modelTier, isLoaded, attachment, isThinking,
                   isImageEvolutionMode, gradioEndpoint, serviceVars, now, send, jobs,
                   effectPending, wipe, restore, used, idb>>

\* lines 257-270: the file is read asynchronously; this is reader.onload,
\* which may fire after a submit made in the meantime has set isThinking
handleFileSelect ==
    /\ UserEvent
    /\ attachment' = Png
    /\ isImageEvolutionMode' = TRUE
    /\ lastEvent' = [op |-> "input"]
    /\ UNCHANGED <<messages, modelTier, isLoaded, inputText, isThinking, gradioEndpoint,
                   serviceVars, now, send, jobs, effectPending, wipe, restore, used,
                   idb>>

clearAttachment ==
    /\ UserEvent
    /\ attachment # <<>>
    /\ attachment' = <<>>
    /\ lastEvent' = [op |-> "input"]
    /\ UNCHANGED <<messages, modelTier, isLoaded, inputText, isThinking,
                   isImageEvolutionMode, gradioEndpoint, serviceVars, now, send, jobs,
                   effectPending, wipe, restore, used, idb>>

toggleImageEvolutionMode ==
    /\ UserEvent
    /\ ~isThinking
    /\ isImageEvolutionMode' = ~isImageEvolutionMode
    /\ lastEvent' = [op |-> "input"]
    /\ UNCHANGED <<messages, modelTier, isLoaded, inputText, attachment, isThinking,
                   gradioEndpoint, serviceVars, now, send, jobs, effectPending, wipe,
                   restore, used, idb>>

handleSaveGradioEndpoint(tempGradioEndpoint) ==
    /\ UserEvent
    /\ gradioEndpoint' = Trim(tempGradioEndpoint)
    /\ gradioEndpoint' # gradioEndpoint
    /\ lastEvent' = [op |-> "input"]
    /\ UNCHANGED <<messages, modelTier, isLoaded, inputVars, isThinking, serviceVars,
                   now, send, jobs, effectPending, wipe, restore, used, idb>>

toggleTier ==
    /\ UserEvent
    /\ modelTier' = IF modelTier = "free" THEN "pro" ELSE "free"
    /\ effectPending' = TRUE
    /\ lastEvent' = [op |-> "toggleTier"]
    /\ UNCHANGED <<messages, isLoaded, inputVars, isThinking, gradioEndpoint,
                   serviceVars, now, send, jobs, wipe, restore, used, idb>>

Tick ==
    /\ now < MaxTime
    /\ now' = now + 1
    /\ lastEvent' = [op |-> "tick"]
    /\ UNCHANGED <<appVars, serviceVars, send, jobs, effectPending, wipe, restore, used, idb>>

(***************************************************************************)
(* sendMessageToEve, lines 201-208: the client is constructed, and the     *)
(* session is restored when it is missing or bound to another tier.        *)
\* lines 248-257 without the test of line 252: every failure gets the
\* signal-lost reply
GenerateResultGeneric(endpoint, outcome) ==
    LET g == generateWithGradio(endpoint, outcome)
    IN  IF ~g.threw
        THEN [text |-> Visualized, image |-> g.url, visualPrompt |-> <<>>,
              isError |-> FALSE]
        ELSE [text |-> SignalLost \o RemoveFailedPrefix(g.message), image |-> <<>>,
              visualPrompt |-> <<>>, isError |-> TRUE]

\* lines 248-257 after generateWithGradio settled
GenerateResult(endpoint, outcome) ==
    LET g == generateWithGradio(endpoint, outcome)
    IN  IF ~g.threw
        THEN [text |-> Visualized, image |-> g.url, visualPrompt |-> <<>>,
              isError |-> FALSE]
        ELSE IF Includes(g.message, NotConfigured)
        THEN [text |-> NeedEndpoint, image |-> <<>>, visualPrompt |-> <<>>,
              isError |-> TRUE]
        ELSE [text |-> SignalLost \o RemoveFailedPrefix(g.message), image |-> <<>>,
              visualPrompt |-> <<>>, isError |-> TRUE]

(***************************************************************************)
\* line 205 without the tier comparison
NeedsRestoreNoSession(session, curTier, tier) == ~session.live

NeedsRestore(session, curTier, tier) == ~session.live \/ curTier # tier

Entry(tier, history, clientThrows, o1, o2, session, curTier) ==
    IF clientThrows
    THEN [threw |-> TRUE, awaited |-> FALSE, chatSession |-> session,
          currentTier |-> curTier]
    ELSE IF NeedsRestore(session, curTier, tier)
         THEN LET sc == startChatWithHistory(tier, history, o1, o2, session, curTier)
              IN  [threw |-> sc.threw, awaited |-> TRUE, chatSession |-> sc.chatSession,
                   currentTier |-> sc.currentTier, handed |-> sc.handed]
         ELSE [threw |-> FALSE, awaited |-> FALSE, chatSession |-> session,
               currentTier |-> curTier]

(***************************************************************************)
(* sendMessageToEve, lines 210-277: from the route decision to the first   *)
(* remote call.  req is the request (the arguments of the call), o3 the    *)
(* outcome of the initializeChat of line 273.  The result is the position  *)
(* reached and the service state.                                          *)
(***************************************************************************)
Returning(req, result, session, curTier) ==
    [send |-> [req EXCEPT !.pc = "returning", !.result = result],
     chatSession |-> session, currentTier |-> curTier]

Dispatch(req, o3, session, curTier) ==
    LET route == Route(req.att, req.force)
    IN  IF route = "IMAGE_EDIT"
        THEN [send |-> [req EXCEPT !.pc = "awaitEdit", !.route = route],
              chatSession |-> session, currentTier |-> curTier]
        ELSE IF route = "IMAGE_GENERATE"
        THEN IF WantsSelfPortrait(req.text)
             THEN IF IsBlank(req.endpoint)
                  THEN Returning([req EXCEPT !.route = route],
                                 GenerateResult(req.endpoint, [call |-> "throws"]),
                                 session, curTier)
                  ELSE [send |-> [req EXCEPT !.pc = "awaitGradio", !.route = route],
                        chatSession |-> session, currentTier |-> curTier]
             ELSE [send |-> [req EXCEPT !.pc = "awaitRephrase", !.route = route],
                   chatSession |-> session, currentTier |-> curTier]
        ELSE LET r == IF ~session.live
                      THEN initializeChat(req.tier, <<>>, o3, session, curTier)
                      ELSE [chatSession |-> session, currentTier |-> curTier,
                            threw |-> FALSE]
             IN  IF r.threw
                 THEN Returning([req EXCEPT !.route = route], ErrorResult,
                                r.chatSession, r.currentTier)
                 ELSE [send |-> [req EXCEPT !.pc = "awaitChat", !.route = route,
                                            !.ctx = r.chatSession,
                                            !.boundTier = r.currentTier,
                                            !.content = MsgContent(req.text, req.att)],
                       chatSession |-> r.chatSession, currentTier |-> r.currentTier]

\* the outcomes of the initializeChat of line 273, which is called only when
\* there is still no session
LastInitOutcomes == IF chatSession.live THEN {"ok"} ELSE InitOutcomes

NoResult == [text |-> <<>>, image |-> <<>>, visualPrompt |-> <<>>, isError |-> FALSE]
Thrown == [thrown |-> TRUE]

(***************************************************************************)
(* App.tsx 309-351: handleSendMessage up to the first point where          *)
(* sendMessageToEve waits.  Lines 201-208 of sendMessageToEve are outside  *)
(* its try block: when the constructor of line 202 throws, or the awaited  *)
(* startChatWithHistory of line 207 rejects (initFailed), the call rejects.*)
(***************************************************************************)
\* line 310 without the isThinking test
SendRefusedWhenEmpty(text, att, thinking) == Trim(text) = <<>> /\ att = <<>>

\* line 310 without the test of the input
SendRefusedWhenThinking(text, att, thinking) == thinking

\* line 310: the test that makes handleSendMessage return at once
SendRefused(text, att, thinking) == (Trim(text) = <<>> /\ att = <<>>) \/ thinking

SendAborted ==
    /\ UserEvent
    /\ SendRefused(inputText, attachment, isThinking)
    /\ lastEvent' = [op |-> "sendAborted"]
    /\ UNCHANGED <<appVars, serviceVars, now, send, jobs, effectPending, wipe, restore, used, idb>>

handleSendMessage(clientThrows, o1, o2, o3) ==
    /\ UserEvent
    /\ ~SendRefused(inputText, attachment, isThinking)
    /\ LET userMsg == Msg(TsId(now), "user", inputText, attachment, FALSE, FALSE)
           req == [pc |-> "start", text |-> userMsg.text, tier |-> modelTier,
                   att |-> attachment, force |-> isImageEvolutionMode,
                   endpoint |-> gradioEndpoint, route |-> "none", result |-> NoResult,
                   ctx |-> NoSession, boundTier |-> "none", content |-> <<>>,
                   stale |-> NeedsRestore(chatSession, currentTier, modelTier),
                   restored |-> FALSE, snapshot |-> messages, handed |-> <<>>,
                   initFailed |-> FALSE]
       IN  \E e \in {Entry(modelTier, messages, clientThrows, o1, o2, chatSession,
                            currentTier)} :
           \E d \in {Dispatch(req, o3, e.chatSession, e.currentTier)} :
           /\ messages' = Append(messages, userMsg)
           /\ IF e.threw
              THEN /\ send' = [req EXCEPT !.pc = "returning", !.result = Thrown,
                                           !.initFailed = e.awaited]
                   /\ chatSession' = e.chatSession
                   /\ currentTier' = e.currentTier
              ELSE IF e.awaited
              THEN /\ send' = [req EXCEPT !.pc = "afterInit", !.restored = TRUE,
                                           !.handed = e.handed]
                   /\ chatSession' = e.chatSession
                   /\ currentTier' = e.currentTier
              ELSE /\ send' = d.send
                   /\ chatSession' = d.chatSession
                   /\ currentTier' = d.currentTier
    /\ inputText' = <<>>
    /\ attachment' = <<>>
    /\ isThinking' = TRUE
    /\ effectPending' = TRUE
    /\ used.submits < MaxSubmits
    /\ used' = [used EXCEPT !.submits = @ + 1]
    /\ lastEvent' = [op |-> "submit", pc |-> send'.pc]
    /\ UNCHANGED <<modelTier, isLoaded, isImageEvolutionMode, gradioEndpoint, now, jobs,
                   wipe, restore, idb>>

\* the continuation after `await startChatWithHistory` (line 207)
AfterInit(o3) ==
    /\ send.pc = "afterInit"
    /\ \E d \in {Dispatch(send, o3, chatSession, currentTier)} :
           /\ send' = d.send
           /\ chatSession' = d.chatSession
           /\ currentTier' = d.currentTier
    /\ lastEvent' = [op |-> "afterInit", pc |-> send'.pc]
    /\ UNCHANGED <<appVars, now, jobs, effectPending, wipe, restore, used, idb>>

(***************************************************************************)
(* App.tsx 354-421: handleSendMessage after sendMessageToEve settled with  *)
(* result (or rejected: Thrown).  The reply message is appended to the log *)
(* as it is now; a visualPrompt launches generateVisualSelfie.  received   *)
(* is the text the chat context answered with and rejected tells whether   *)
(* the awaited remote call was rejected; both are kept in lastEvent.       *)
(***************************************************************************)
\* lines 354-363 without the error flag: an error result is appended like an
\* ordinary reply
ReplyFlaggedOnThrowOnly(result, messageId) ==
    IF "thrown" \in DOMAIN result
    THEN Msg(messageId, "model", UnexpectedError, <<>>, TRUE, FALSE)
    ELSE Msg(messageId, "model", result.text, result.image, FALSE,
             result.visualPrompt # <<>>)

ReplyMessage(result, messageId) ==
    IF "thrown" \in DOMAIN result
    THEN Msg(messageId, "model", UnexpectedError, <<>>, TRUE, FALSE)
    ELSE IF result.isError
    THEN Msg(messageId, "model", result.text, <<>>, TRUE, FALSE)
    ELSE Msg(messageId, "model", result.text, result.image, FALSE,
             result.visualPrompt # <<>>)

\* line 380 without the test of the cue: every result that was returned
\* launches a job
LaunchesJobForEveryReply(result) == "thrown" \notin DOMAIN result

LaunchesJob(result) ==
    /\ "thrown" \notin DOMAIN result
    /\ ~result.isError
    /\ result.visualPrompt # <<>>

\* isThinking after the handler, were lines 417-421 the last statements of
\* the try block instead of a finally block
ThinkingAfterTry(result) == "thrown" \in DOMAIN result

\* lines 417-421: the finally block clears isThinking on every way out
ThinkingAfter(result) == FALSE

Settle(result, received, rejected) ==
    LET messageId == TsId(now + 1)
    IN  /\ messages' = Append(messages, ReplyMessage(result, messageId))
        /\ jobs' = IF LaunchesJob(result)
                   THEN Append(jobs, [id |-> messageId,
                                      description |-> result.visualPrompt,
                                      endpoint |-> send.endpoint])
                   ELSE jobs
        /\ isThinking' = ThinkingAfter(result)
        /\ isImageEvolutionMode' = FALSE
        /\ send' = Idle
        /\ effectPending' = TRUE
        /\ lastEvent' = [op |-> "settle", route |-> send.route, result |-> result,
                         id |-> messageId, launched |-> LaunchesJob(result),
                         received |-> received, endpoint |-> send.endpoint,
                         rejected |-> rejected]
        /\ UNCHANGED <<modelTier, isLoaded, inputText, attachment, gradioEndpoint,
                       serviceVars, now, wipe, restore, used, idb>>

\* sendMessageToEve returned without waiting for a remote call
Return ==
    /\ send.pc = "returning"
    /\ Settle(send.result, <<>>, FALSE)

\* lines 217-230: the image-edit call answers or is rejected
EditReply(rejected, responseParts) ==
    /\ send.pc = "awaitEdit"
    /\ Settle(IF rejected THEN ErrorResult
              ELSE processImageResponse(responseParts, Evolved), <<>>, rejected)

\* line 244: rephrasePromptForGradio answered (or failed and fell back); with
\* a blank endpoint generateWithGradio throws at once
RephraseReply ==
    /\ send.pc = "awaitRephrase"
    /\ IF IsBlank(send.endpoint)
       THEN Settle(GenerateResult(send.endpoint, [call |-> "throws"]), <<>>, FALSE)
       ELSE /\ send' = [send EXCEPT !.pc = "awaitGradio"]
            /\ lastEvent' = [op |-> "rephrased"]
            /\ UNCHANGED <<appVars, serviceVars, now, jobs, effectPending, wipe, restore, used, idb>>

GradioReply(outcome) ==
    /\ send.pc = "awaitGradio"
    /\ Settle(GenerateResult(send.endpoint, outcome), <<>>, FALSE)

\* line 277: the chat context answers or the call is rejected
ChatReply(rejected, resultText) ==
    /\ send.pc = "awaitChat"
    /\ Settle(IF rejected THEN ErrorResult
              ELSE LET t == TriggerProtocol(resultText, send.endpoint)
                   IN  [text |-> t.text, image |-> <<>>,
                        visualPrompt |-> t.visualPrompt, isError |-> FALSE],
              IF rejected THEN <<>> ELSE resultText, rejected)

(***************************************************************************)
(* App.tsx 382-402: a generateVisualSelfie promise settles and the message *)
(* with the stored id is patched.                                          *)
(***************************************************************************)
\* the success patch without the reset of the flag of line 386
PatchImageKeepLoading(prev, messageId, generatedImage) ==
    [k \in 1..Len(prev) |->
        IF prev[k].id = messageId
        THEN [prev[k] EXCEPT !.image = generatedImage]
        ELSE prev[k]]

PatchImage(prev, messageId, generatedImage) ==
    [k \in 1..Len(prev) |->
        IF prev[k].id = messageId
        THEN [prev[k] EXCEPT !.image = generatedImage, !.isImageLoading = FALSE]
        ELSE prev[k]]

\* the failure branch without lines 394-398: the log is left as it is
KeepLoading(prev, messageId) == prev

\* the failure patch without the id comparison: every message's flag is cleared
ClearAllLoading(prev, messageId) ==
    [k \in 1..Len(prev) |-> [prev[k] EXCEPT !.isImageLoading = FALSE]]

ClearLoading(prev, messageId) ==
    [k \in 1..Len(prev) |->
        IF prev[k].id = messageId
        THEN [prev[k] EXCEPT !.isImageLoading = FALSE]
        ELSE prev[k]]

RemoveAt(seq, i) == SubSeq(seq, 1, i - 1) \o SubSeq(seq, i + 1, Len(seq))

JobPatch(prev, job, g) ==
    IF ~g.threw /\ g.url # <<>>
    THEN PatchImage(prev, job.id, g.url)
    ELSE ClearLoading(prev, job.id)

JobSettles(i, outcome) ==
    /\ ~InMicrotask
    /\ i \in 1..Len(jobs)
    /\ LET job == jobs[i]
           g == generateVisualSelfie(job.description, job.endpoint, outcome)
       IN  /\ messages' = JobPatch(messages, job, g)
           /\ lastEvent' = [op |-> "jobSettled", id |-> job.id,
                            ok |-> ~g.threw /\ g.url # <<>>, image |-> g.url]
    /\ jobs' = RemoveAt(jobs, i)
    /\ effectPending' = TRUE
    /\ UNCHANGED <<modelTier, isLoaded, inputVars, isThinking, gradioEndpoint,
                   serviceVars, now, send, wipe, restore, used, idb>>

(***************************************************************************)
(* App.tsx 175-195: handleWipeMemory.  The confirmed click starts          *)
(* clearSession; the rest runs when it has settled, with the modelTier the *)
(* handler captured at the click.  A throw of clearSession ends it.        *)
(***************************************************************************)
ResetText == <<"Vault cleared. Fresh session started.">>

WipeConfirmed ==
    /\ UserEvent
    /\ wipe.pc = "idle"
    /\ wipe' = [pc |-> "awaitClear", tier |-> modelTier]
    /\ used.wipes < MaxWipes
    /\ used' = [used EXCEPT !.wipes = @ + 1]
    /\ lastEvent' = [op |-> "wipeConfirmed"]
    /\ UNCHANGED <<appVars, serviceVars, now, send, jobs, effectPending, restore>>

WipeFails ==
    /\ ~InMicrotask
    /\ wipe.pc = "awaitClear"
    /\ wipe' = Idle
    /\ lastEvent' = [op |-> "wipeFailed"]
    /\ UNCHANGED <<appVars, serviceVars, now, send, jobs, effectPending, restore, used>>

WipeDone(o1, o2) ==
    /\ ~InMicrotask
    /\ wipe.pc = "awaitClear"
    /\ LET resetMsg == Msg(TsId(now), "model", ResetText, <<>>, FALSE, FALSE)
           sc == startChatWithHistory(wipe.tier, <<resetMsg>>, o1, o2, chatSession,
                                      currentTier)
       IN  /\ messages' = <<resetMsg>>
           /\ chatSession' = sc.chatSession
           /\ currentTier' = sc.currentTier
    /\ attachment' = <<>>
    /\ wipe' = Idle
    /\ effectPending' = TRUE
    /\ lastEvent' = [op |-> "wiped"]
    /\ UNCHANGED <<modelTier, isLoaded, inputText, isThinking, isImageEvolutionMode,
                   gradioEndpoint, now, send, jobs, restore, used>>

(***************************************************************************)
(* App.tsx 220-254: handleImportBackup.  The confirmed backup replaces the *)
(* log (and the tier when the backup names one) and saveSession starts;    *)
(* when it has settled the session is restarted from the backup.  A throw  *)
(* of saveSession ends the handler.                                        *)
(***************************************************************************)
Backups ==
    {[messages |-> <<>>, tier |-> "none"],
     [messages |-> <<Msg(TsId(0), "user", Hi, <<>>, FALSE, FALSE),
                     Msg(TsId(1), "model", Hey, <<>>, FALSE, TRUE)>>,
      tier |-> "pro"]}

BackupTier(json) == IF json.tier # "none" THEN json.tier ELSE "free"

RestoreConfirmed(json) ==
    /\ UserEvent
    /\ restore.pc = "idle"
    /\ messages' = json.messages
    /\ modelTier' = IF json.tier # "none" THEN json.tier ELSE modelTier
    /\ restore' = [pc |-> "awaitSave", json |-> json]
    /\ effectPending' = TRUE
    /\ used.restores < MaxRestores
    /\ used' = [used EXCEPT !.restores = @ + 1]
    /\ lastEvent' = [op |-> "restoreConfirmed"]
    /\ UNCHANGED <<isLoaded, inputVars, isThinking, gradioEndpoint, serviceVars, now,
                   send, jobs, wipe>>

RestoreFails ==
    /\ ~InMicrotask
    /\ restore.pc = "awaitSave"
    /\ restore' = Idle
    /\ lastEvent' = [op |-> "restoreFailed"]
    /\ UNCHANGED <<appVars, serviceVars, now, send, jobs, effectPending, wipe, used>>

RestoreDone(o1, o2) ==
    /\ ~InMicrotask
    /\ restore.pc = "awaitSave"
    /\ LET sc == startChatWithHistory(BackupTier(restore.json), restore.json.messages,
                                      o1, o2, chatSession, currentTier)
       IN  /\ chatSession' = sc.chatSession
           /\ currentTier' = sc.currentTier
    /\ restore' = Idle
    /\ lastEvent' = [op |-> "restored"]
    /\ UNCHANGED <<appVars, now, send, jobs, effectPending, wipe, used>>

(***************************************************************************)
(* Persistence.  The handlers above that issue or await a persistence      *)
(* operation (the effects of App.tsx 82-109, the wipe and the import) say  *)
(* nothing about idb; their effect on it is given here.  The store is only *)
(* read when the application mounts, so a specification that leaves idb    *)
(* unchanged shows the same behaviour of every other variable.             *)
(***************************************************************************)
\* line 97 without the test of the id: any single-entry log counts as the
\* default welcome
SingleEntry(log) == Len(log) = 1

\* line 97
DefaultWelcome(log) == Len(log) = 1 /\ log[1].id = NamedId("welcome")

\* line 102 without its second argument: saveSession falls back to its
\* default tier
SaveWithDefaultTier(vault, log, tier) ==
    IF Len(log) > 0 /\ ~DefaultWelcome(log)
    THEN Issue(vault, saveSession(log, "free", "effect"))
    ELSE vault

\* App.tsx 91-109, the save effect: saveSession is called unless the log is
\* empty or the default welcome; its outcome is only logged
SaveOnInteraction(vault, log, tier) ==
    IF Len(log) > 0 /\ ~DefaultWelcome(log)
    THEN Issue(vault, saveSession(log, tier, "effect"))
    ELSE vault

\* the effects of App.tsx 82-109 run after a render in which isLoaded,
\* modelTier or messages changed
EffectsRun(o1, o2) ==
    /\ BrainConnection(o1, o2)
    /\ idb' = SaveOnInteraction(idb, messages, modelTier)

\* App.tsx 178: clearSession is called
WipeStarts ==
    /\ WipeConfirmed
    /\ idb' = Issue(idb, clearSession("wipe"))

\* clearSession threw (the database could not be opened): nothing is deleted
WithoutLastDelete(pending) ==
    LET k == CHOOSE i \in 1..Len(pending) :
                 /\ pending[i].kind = "delete"
                 /\ \A j \in (i + 1)..Len(pending) : pending[j].kind # "delete"
    IN  RemoveAt(pending, k)

WipeAborts ==
    /\ WipeFails
    /\ idb' = [idb EXCEPT !.pending = WithoutLastDelete(@), !.lost = TRUE]

\* clearSession returned: the delete is queued (its transaction is not
\* awaited) and the log is replaced
WipeProceeds(o1, o2) ==
    /\ WipeDone(o1, o2)
    /\ idb' = [idb EXCEPT !.wiped = messages]

\* App.tsx 234: saveSession is called with the backup
RestoreStarts(json) ==
    /\ RestoreConfirmed(json)
    /\ idb' = Issue(idb, saveSession(json.messages, BackupTier(json), "import"))

AwaitedSaveIsNext == idb.pending # <<>> /\ Head(idb.pending).by = "import"

\* the awaited saveSession resolved (transaction.oncomplete)
RestoreProceeds(o1, o2) ==
    /\ AwaitedSaveIsNext
    /\ RestoreDone(o1, o2)
    /\ idb' = Applied(idb)

\* the awaited saveSession rejected
RestoreAborts ==
    /\ AwaitedSaveIsNext
    /\ RestoreFails
    /\ idb' = Abandoned(idb)

\* an operation nobody awaits settles: a save of the save effect, or the
\* delete of a wipe after clearSession returned
SaveSettles(ok) ==
    /\ ~InMicrotask
    /\ idb.pending # <<>>
    /\ Head(idb.pending).by # "import"
    /\ Head(idb.pending).by = "wipe" => wipe.pc = "idle"
    /\ idb' = IF ok THEN Applied(idb) ELSE Abandoned(idb)
    /\ lastEvent' = [op |-> "persisted", ok |-> ok, kind |-> Head(idb.pending).kind,
                     before |-> Cardinality(idb.sessions)]
    /\ UNCHANGED <<appVars, serviceVars, now, send, jobs, effectPending, wipe, restore,
                   used>>

\* the page is loaded again: the process state is that of App.tsx 10-33
\* and of the module variables of the service; the endpoint comes back from
\* localStorage; operations that had not settled are abandoned
Reload ==
    /\ used.reloads < MaxReloads
    /\ messages' = <<>>
    /\ modelTier' = "free"
    /\ isLoaded' = FALSE
    /\ inputText' = <<>>
    /\ attachment' = <<>>
    /\ isThinking' = FALSE
    /\ isImageEvolutionMode' = FALSE
    /\ chatSession' = NoSession
    /\ currentTier' = "free"
    /\ send' = Idle
    /\ jobs' = <<>>
    /\ effectPending' = FALSE
    /\ wipe' = Idle
    /\ restore' = Idle
    /\ used' = [used EXCEPT !.reloads = @ + 1]
    /\ idb' = [idb EXCEPT !.pending = <<>>, !.lost = @ \/ idb.pending # <<>>]
    /\ lastEvent' = [op |-> "mount"]
    /\ UNCHANGED <<gradioEndpoint, now>>

(***************************************************************************)
(* The next-state relation and the specification of the application.       *)
(***************************************************************************)
Next ==
    \/ \E loadThrows \in BOOLEAN : hydrate(loadThrows)
    \/ hydrateWithoutDatabase
    \/ \E o1 \in InitOutcomes : \E o2 \in RetryOutcomes(o1) : EffectsRun(o1, o2)
    \/ \E text \in InputTexts : setInputText(text)
    \/ handleFileSelect
    \/ clearAttachment
    \/ toggleImageEvolutionMode
    \/ \E temp \in EndpointInputs : handleSaveGradioEndpoint(temp)
    \/ toggleTier
    \/ Tick
    \/ SendAborted
    \/ handleSendMessage(TRUE, "ok", "ok", "ok")
    \/ \E o1 \in InitOutcomes : \E o2 \in RetryOutcomes(o1) :
          \E o3 \in LastInitOutcomes : handleSendMessage(FALSE, o1, o2, o3)
    \/ \E o3 \in LastInitOutcomes : AfterInit(o3)
    \/ Return
    \/ \E rejected \in BOOLEAN, parts \in EditResponses : EditReply(rejected, parts)
    \/ RephraseReply
    \/ \E outcome \in GradioOutcomes : GradioReply(outcome)
    \/ \E rejected \in BOOLEAN, resultText \in ChatReplies : ChatReply(rejected, resultText)
    \/ \E i \in 1..Len(jobs), outcome \in GradioOutcomes : JobSettles(i, outcome)
    \/ WipeStarts
    \/ WipeAborts
    \/ \E o1 \in InitOutcomes : \E o2 \in RetryOutcomes(o1) : WipeProceeds(o1, o2)
    \/ \E json \in Backups : RestoreStarts(json)
    \/ RestoreAborts
    \/ \E o1 \in InitOutcomes : \E o2 \in RetryOutcomes(o1) : RestoreProceeds(o1, o2)
    \/ \E ok \in BOOLEAN : SaveSettles(ok)
    \/ Reload

Spec == Init /\ [][Next]_vars

(***************************************************************************)
(* The reconciliation specification: startChatWithHistory applied to every *)
(* message log of up to MaxLogLen entries drawn from LogEntries (a log of  *)
(* any shape reaches the component through a restored backup).  The effect *)
(* of lines 82-88 is the caller.                                           *)
(***************************************************************************)
TextA == <<"a">>
TextB == <<"b">>
TextC == <<"c">>
TextE == <<"e">>
Https == ImageUrl
PngE == <<"d", "a", "t", "a", ":", "i", "m", "a", "g", "e", "/", "p", "n", "g",
          ";", "b", "a", "s", "e", "6", "4", ",", "E", "E">>

LogEntries ==
    {Msg(TsId(0), "user", TextA, <<>>, FALSE, FALSE),
     Msg(TsId(0), "user", TextB, <<>>, FALSE, FALSE),
     Msg(TsId(0), "user", <<Sp>>, <<>>, FALSE, FALSE),
     Msg(TsId(0), "user", <<>>, Png, FALSE, FALSE),
     Msg(TsId(0), "user", <<>>, Https, FALSE, FALSE),
     Msg(TsId(0), "model", TextC, <<>>, FALSE, FALSE),
     Msg(TsId(0), "model", <<>>, Https, FALSE, TRUE),
     Msg(TsId(0), "user", TextE, PngE, TRUE, FALSE),
     Msg(TsId(0), "model", TextE, <<>>, TRUE, FALSE)}

RECURSIVE LogsUpTo(_)
LogsUpTo(n) ==
    IF n = 0 THEN {<<>>}
    ELSE LogsUpTo(n - 1)
           \cup {Append(log, h) : log \in {l \in LogsUpTo(n - 1) : Len(l) = n - 1},
                                  h \in LogEntries}

InitRecon ==
    /\ messages \in LogsUpTo(MaxLogLen)
    /\ modelTier = "free"
    /\ isLoaded = TRUE
    /\ inputText = <<>>
    /\ attachment = <<>>
    /\ isThinking = FALSE
    /\ isImageEvolutionMode = FALSE
    /\ gradioEndpoint = <<>>
    /\ chatSession = NoSession
    /\ currentTier = "free"
    /\ now = 0
    /\ send = Idle
    /\ jobs = <<>>
    /\ effectPending = TRUE
    /\ wipe = Idle
    /\ restore = Idle
    /\ used = [submits |-> 0, wipes |-> 0, restores |-> 0, reloads |-> 0]
    /\ lastEvent = [op |-> "mount"]
    /\ idb = EmptyVault

NextRecon ==
    \E o1 \in InitOutcomes : \E o2 \in RetryOutcomes(o1) : BrainConnection(o1, o2) /\ UNCHANGED idb

SpecRecon == InitRecon /\ [][NextRecon]_vars

(***************************************************************************)
(* Properties of the reconciliation.                                       *)
(***************************************************************************)
StartChatDone == lastEvent.op = "startChat"

\* C1: the turn sequence startChatWithHistory hands to initializeChat is
\* empty, or its first turn is a user turn and its last turn a model turn.
HandedStartsUserEndsModel ==
    StartChatDone =>
        \/ lastEvent.handed = <<>>
        \/ /\ lastEvent.handed[1].role = "user"
           /\ lastEvent.handed[Len(lastEvent.handed)].role = "model"

\* a log that opens with a model entry and closes with a user entry was
\* reconciled into a non-empty sequence closed by the placeholder turn
HandedStartsUserEndsModelWitness ==
    /\ StartChatDone
    /\ Len(lastEvent.log) = MaxLogLen
    /\ lastEvent.log[1] = Msg(TsId(0), "model", TextC, <<>>, FALSE, FALSE)
    /\ lastEvent.log[MaxLogLen] = Msg(TsId(0), "user", TextA, <<>>, FALSE, FALSE)
    /\ Len(lastEvent.handed) >= 2
    /\ lastEvent.handed[Len(lastEvent.handed)].parts = <<[text |-> Placeholder]>>

NotError(h) == ~h.isError

ErrorPart(part) ==
    \/ "text" \in DOMAIN part /\ part.text = TextE
    \/ "inlineData" \in DOMAIN part /\ part.inlineData.data = <<"E", "E">>

\* C2: no message flagged isError contributes a part to the handed sequence:
\* the sequence is what reconciling the log without its error entries gives,
\* and none of its parts carries the text or the image of an error entry.
ErrorsNeverContribute ==
    StartChatDone =>
        /\ lastEvent.handed = ReconcileHistory(SelectSeq(lastEvent.log, NotError))
        /\ \A t \in 1..Len(lastEvent.handed) :
              \A k \in 1..Len(lastEvent.handed[t].parts) :
                 ~ErrorPart(lastEvent.handed[t].parts[k])

\* an error entry with text and image sits between two entries that do
\* contribute
ErrorsNeverContributeWitness ==
    /\ StartChatDone
    /\ Len(lastEvent.log) = 3
    /\ lastEvent.log[1] = Msg(TsId(0), "user", TextA, <<>>, FALSE, FALSE)
    /\ lastEvent.log[2] = Msg(TsId(0), "user", TextE, PngE, TRUE, FALSE)
    /\ lastEvent.log[3] = Msg(TsId(0), "model", TextC, <<>>, FALSE, FALSE)
    /\ Len(lastEvent.handed) = 2

\* The maximal same-role runs of a turn sequence f, by position: a run
\* starts where the role differs from the turn before, and ends before the
\* next start.
RunStarts(f) == {i \in 1..Len(f) : i = 1 \/ f[i].role # f[i - 1].role}

RunEnd(f, i) ==
    CHOOSE j \in i..Len(f) :
        /\ \A k \in (i + 1)..j : k \notin RunStarts(f)
        /\ j = Len(f) \/ (j + 1) \in RunStarts(f)

RECURSIVE ConcatParts(_, _, _)
ConcatParts(f, i, j) ==
    IF i > j THEN <<>> ELSE f[i].parts \o ConcatParts(f, i + 1, j)

NthStart(f, n) ==
    CHOOSE i \in RunStarts(f) : Cardinality({j \in RunStarts(f) : j < i}) = n - 1

MergedRuns(f) ==
    [n \in 1..Cardinality(RunStarts(f)) |->
        [role |-> f[NthStart(f, n)].role,
         parts |-> ConcatParts(f, NthStart(f, n), RunEnd(f, NthStart(f, n)))]]

TwoUsersThenModel ==
    <<Msg(TsId(0), "user", TextA, <<>>, FALSE, FALSE),
      Msg(TsId(0), "user", TextB, <<>>, FALSE, FALSE),
      Msg(TsId(0), "model", TextC, <<>>, FALSE, FALSE)>>

\* C3: every maximal run of consecutive same-role turns becomes one turn
\* whose parts are the run's parts concatenated in log order (the leading
\* model turns then dropped and the placeholder turn added); the log
\* [user A, user B, model C] gives [user(A then B), model(C)].
MergesMaximalRuns ==
    StartChatDone /\ lastEvent.log # <<>> =>
        /\ lastEvent.handed =
              PushDummyModel(ShiftLeadingModel(MergedRuns(FlattenHistory(lastEvent.log))))
        /\ lastEvent.log = TwoUsersThenModel =>
              lastEvent.handed =
                 <<[role |-> "user", parts |-> <<[text |-> TextA], [text |-> TextB]>>],
                   [role |-> "model", parts |-> <<[text |-> TextC]>>]>>

MergesMaximalRunsWitness ==
    /\ StartChatDone
    /\ lastEvent.log = TwoUsersThenModel
    /\ Len(lastEvent.handed) = 2
    /\ Len(lastEvent.handed[1].parts) = 2

(***************************************************************************)
(* The routing specification: one submit from every combination of typed   *)
(* text, attachment, generation flag, endpoint, tier and session state,    *)
(* followed to the reply.                                                  *)
(***************************************************************************)
RouteSessions ==
    {[chatSession |-> NoSession, currentTier |-> "free"],
     [chatSession |-> NewSession("free", <<>>), currentTier |-> "free"],
     [chatSession |-> NewSession("pro", <<>>), currentTier |-> "pro"]}

InitRoute ==
    /\ messages = <<Msg(NamedId("welcome"), "model", WelcomeText, <<>>, FALSE, FALSE)>>
    /\ modelTier \in Tiers
    /\ isLoaded = TRUE
    /\ inputText \in InputTexts
    /\ attachment \in {<<>>, Png}
    /\ isThinking = FALSE
    /\ isImageEvolutionMode \in BOOLEAN
    /\ gradioEndpoint \in {<<>>, Endpoint}
    /\ \E h \in RouteSessions : chatSession = h.chatSession /\ currentTier = h.currentTier
    /\ now = 0
    /\ send = Idle
    /\ jobs = <<>>
    /\ effectPending = FALSE
    /\ wipe = Idle
    /\ restore = Idle
    /\ used = [submits |-> 0, wipes |-> 0, restores |-> 0, reloads |-> 0]
    /\ lastEvent = [op |-> "mount"]
    /\ idb = EmptyVault

NextRoute ==
    \/ SendAborted
    \/ handleSendMessage(TRUE, "ok", "ok", "ok")
    \/ \E o1 \in InitOutcomes : \E o2 \in RetryOutcomes(o1) :
          \E o3 \in LastInitOutcomes : handleSendMessage(FALSE, o1, o2, o3)
    \/ \E o3 \in LastInitOutcomes : AfterInit(o3)
    \/ \E o1 \in InitOutcomes : \E o2 \in RetryOutcomes(o1) : BrainConnection(o1, o2) /\ UNCHANGED idb
    \/ Return
    \/ \E rejected \in BOOLEAN, parts \in EditResponses : EditReply(rejected, parts)
    \/ RephraseReply
    \/ \E outcome \in GradioOutcomes : GradioReply(outcome)
    \/ \E rejected \in BOOLEAN, resultText \in ChatReplies : ChatReply(rejected, resultText)

SpecRoute == InitRoute /\ [][NextRoute]_vars

\* the request has passed the route decision of lines 214-260
Routed == send.pc \in {"awaitEdit", "awaitRephrase", "awaitGradio", "awaitChat"}

\* C4: the route is a function of (attachment present, generation flag):
\* (yes, yes) is IMAGE_EDIT, (no, yes) is IMAGE_GENERATE, everything else is
\* CHAT, where an attachment travels as a binary part of the user's turn.
RouteTable ==
    Routed =>
        /\ send.att # <<>> /\ send.force =>
              send.route = "IMAGE_EDIT" /\ send.pc = "awaitEdit"
        /\ send.att = <<>> /\ send.force =>
              send.route = "IMAGE_GENERATE" /\ send.pc \in {"awaitRephrase", "awaitGradio"}
        /\ ~send.force =>
              /\ send.route = "CHAT" /\ send.pc = "awaitChat"
              /\ send.content[Len(send.content)] = [text |-> send.text]
              /\ IF send.att # <<>>
                 THEN /\ Len(send.content) = 2
                      /\ send.content[1] =
                            [inlineData |-> [mimeType |-> PngMime,
                                             data |-> <<"Q", "Q">>]]
                 ELSE Len(send.content) = 1

\* an attachment submitted without the generation flag is on its way to the
\* chat context
RouteTableWitness ==
    /\ send.pc = "awaitChat"
    /\ send.att = Png
    /\ ~send.force
    /\ Len(send.content) = 2

(***************************************************************************)
(* The parser specification: a chat turn is in flight and the context      *)
(* answers with any text made of up to MaxFragments fragments of the       *)
(* marker syntax.  The endpoint is what localStorage held at mount: absent,*)
(* a blank string, or a name.                                              *)
(***************************************************************************)
MaxFragments == 4

Fragments == {SelfieOpen, <<":">>, <<"]">>, <<Sp>>, <<Nl>>, <<"a">>}

RECURSIVE Concats(_)
Concats(n) ==
    IF n = 0 THEN {<<>>}
    ELSE Concats(n - 1) \cup {c \o f : c \in Concats(n - 1), f \in Fragments}

HeyRedDressBye ==
    <<"h", "e", "y", Sp>> \o SelfieOpen
       \o <<":", Sp, "r", "e", "d", Sp, "d", "r", "e", "s", "s", "]", Sp, "b", "y", "e">>

ParseReplies == Concats(MaxFragments) \cup {HeyRedDressBye}

Welcome == Msg(NamedId("welcome"), "model", WelcomeText, <<>>, FALSE, FALSE)

InitParse ==
    /\ messages = <<Welcome, Msg(TsId(0), "user", Hi, <<>>, FALSE, FALSE)>>
    /\ modelTier = "free"
    /\ isLoaded = TRUE
    /\ inputText = <<>>
    /\ attachment = <<>>
    /\ isThinking = TRUE
    /\ isImageEvolutionMode = FALSE
    /\ gradioEndpoint \in EndpointInputs
    /\ chatSession = NewSession("free", <<>>)
    /\ currentTier = "free"
    /\ now = 0
    /\ send = [pc |-> "awaitChat", text |-> Hi, tier |-> "free", att |-> <<>>,
               force |-> FALSE, endpoint |-> gradioEndpoint, route |-> "CHAT",
               result |-> NoResult, ctx |-> chatSession, boundTier |-> "free",
               content |-> MsgContent(Hi, <<>>), stale |-> FALSE, restored |-> FALSE,
               snapshot |-> <<Welcome>>, handed |-> <<>>]
    /\ jobs = <<>>
    /\ effectPending = FALSE
    /\ wipe = Idle
    /\ restore = Idle
    /\ used = [submits |-> 1, wipes |-> 0, restores |-> 0, reloads |-> 0]
    /\ lastEvent = [op |-> "submit", pc |-> "awaitChat"]
    /\ idb = EmptyVault

NextParse ==
    \E rejected \in BOOLEAN, resultText \in ParseReplies : ChatReply(rejected, resultText)

SpecParse == InitParse /\ [][NextParse]_vars

(***************************************************************************)
(* The marker syntax, stated on positions.  s[i..j] is a marker when it is *)
(* "[SELFIE" "]", or "[SELFIE" ":" whitespace payload "]" with a payload   *)
(* free of newlines.  The occurrence starting at i is the shortest marker  *)
(* starting there (the payload is lazy); its payload starts after the      *)
(* longest whitespace run (the whitespace is greedy).  The occurrences of  *)
(* a text are chosen left to right without overlap.                        *)
(***************************************************************************)
Splits(s, i, j) ==
    {w \in (i + Len(SelfieOpen) + 1)..j :
        /\ \A k \in (i + Len(SelfieOpen) + 1)..(w - 1) : IsSpaceChar(s[k])
        /\ \A k \in w..(j - 1) : s[k] # Nl}

IsMarker(s, i, j) ==
    /\ i >= 1
    /\ j <= Len(s)
    /\ j >= i + Len(SelfieOpen)
    /\ SubSeq(s, i, i + Len(SelfieOpen) - 1) = SelfieOpen
    /\ s[j] = "]"
    /\ \/ j = i + Len(SelfieOpen)
       \/ s[i + Len(SelfieOpen)] = ":" /\ Splits(s, i, j) # {}

MarkerStarts(s) == {i \in 1..Len(s) : \E j \in i..Len(s) : IsMarker(s, i, j)}

MarkerEnd(s, i) ==
    CHOOSE j \in i..Len(s) :
        IsMarker(s, i, j) /\ \A k \in i..(j - 1) : ~IsMarker(s, i, k)

Payload(s, i) ==
    IF MarkerEnd(s, i) = i + Len(SelfieOpen) THEN <<>>
    ELSE LET w == CHOOSE x \in Splits(s, i, MarkerEnd(s, i)) :
                     \A y \in Splits(s, i, MarkerEnd(s, i)) : y <= x
         IN  SubSeq(s, w, MarkerEnd(s, i) - 1)

Occurrences(s) ==
    CHOOSE C \in SUBSET MarkerStarts(s) :
        \A i \in MarkerStarts(s) :
            i \in C <=> ~\E c \in C : c < i /\ i <= MarkerEnd(s, c)

Kept(s) ==
    LET occ == Occurrences(s)
    IN  {k \in 1..Len(s) : ~\E c \in occ : c <= k /\ k <= MarkerEnd(s, c)}

WithoutMarkers(s) ==
    LET kept == Kept(s)
    IN  [n \in 1..Cardinality(kept) |->
            s[CHOOSE k \in kept : Cardinality({j \in kept : j < k}) = n - 1]]

FirstPayload(s) ==
    Payload(s, CHOOSE i \in MarkerStarts(s) : \A j \in MarkerStarts(s) : i <= j)

Configured(endpoint) == \E k \in 1..Len(endpoint) : ~IsSpaceChar(endpoint[k])

ChatAnswered ==
    /\ lastEvent.op = "settle"
    /\ lastEvent.route = "CHAT"
    /\ "thrown" \notin DOMAIN lastEvent.result
    /\ ~lastEvent.result.isError

\* C8: a chat reply with at least one marker, with an image backend
\* configured: the display text is the reply without its marker occurrences,
\* trimmed, and the cue is the payload of the first marker, or the fixed
\* fallback when that payload is missing or empty.  "hey [SELFIE: red dress]
\* bye" gives "hey  bye" with the cue "red dress".
MarkersStrippedCueReturned ==
    ChatAnswered /\ MarkerStarts(lastEvent.received) # {} /\ Configured(lastEvent.endpoint) =>
        /\ lastEvent.result.text = Trim(WithoutMarkers(lastEvent.received))
        /\ LET payload == FirstPayload(lastEvent.received)
           IN  lastEvent.result.visualPrompt =
                  IF payload # <<>> THEN payload ELSE DefaultCue
        /\ lastEvent.received = HeyRedDressBye =>
              /\ lastEvent.result.text = <<"h", "e", "y", Sp, Sp, "b", "y", "e">>
              /\ lastEvent.result.visualPrompt = <<"r", "e", "d", Sp, "d", "r", "e", "s", "s">>

\* a reply with two markers, the first without payload
MarkersStrippedCueReturnedWitness ==
    /\ ChatAnswered
    /\ Configured(lastEvent.endpoint)
    /\ lastEvent.received = SelfieOpen \o <<"]">> \o SelfieOpen \o <<"]">>
    /\ lastEvent.result.text = <<>>
    /\ lastEvent.result.visualPrompt = DefaultCue

\* C9: a chat reply with a marker while the endpoint is absent or blank: no
\* cue is returned, no job is launched, the reply message is not pending,
\* and its text is the stripped text followed by the unavailability note.
NoBackendNoJob ==
    ChatAnswered /\ MarkerStarts(lastEvent.received) # {} /\ ~Configured(lastEvent.endpoint) =>
        /\ lastEvent.result.visualPrompt = <<>>
        /\ ~lastEvent.launched
        /\ jobs = <<>>
        /\ messages[Len(messages)].id = lastEvent.id
        /\ ~messages[Len(messages)].isImageLoading
        /\ messages[Len(messages)].text =
              Trim(WithoutMarkers(lastEvent.received)) \o UnavailableNote

\* the endpoint is a blank string and the reply carries a marker with payload
NoBackendNoJobWitness ==
    /\ ChatAnswered
    /\ lastEvent.endpoint = <<Sp>>
    /\ lastEvent.received = SelfieOpen \o <<":", "a", "]">>
    /\ messages[Len(messages)].text = UnavailableNote

(***************************************************************************)
(* The job specification: chat submits whose replies may launch visual     *)
(* jobs, and a wipe or a backup restore, with the jobs settling at any     *)
(* later time in any order.  The log is replaced once in a run, by the     *)
(* wipe or by the restore.                                                 *)
(***************************************************************************)
InitJobs == Init /\ gradioEndpoint = Endpoint

NextJobs ==
    \/ hydrate(FALSE)
    \/ BrainConnection("ok", "ok") /\ UNCHANGED idb
    \/ setInputText(Hi)
    \/ Tick
    \/ handleSendMessage(FALSE, "ok", "ok", "ok")
    \/ AfterInit("ok")
    \/ \E resultText \in {Hey, HeySelfie} : ChatReply(FALSE, resultText)
    \/ \E i \in 1..Len(jobs), outcome \in GradioOutcomes : JobSettles(i, outcome)
    \/ used.restores = 0 /\ WipeConfirmed /\ UNCHANGED idb
    \/ WipeDone("ok", "ok") /\ UNCHANGED idb
    \/ used.wipes = 0 /\ \E json \in Backups : RestoreConfirmed(json) /\ UNCHANGED idb
    \/ RestoreDone("ok", "ok") /\ UNCHANGED idb

SpecJobs == InitJobs /\ [][NextJobs]_vars

\* the step is the settling of a job; lastEvent' holds its target id, whether
\* it produced an image, and the image
JobSettled == lastEvent'.op = "jobSettled"

TargetsOf(id) == {k \in 1..Len(messages) : messages[k].id = id}

\* C5: a job that settles when no message of the log has its target id
\* leaves the log as it is (no message is changed, added or flagged as an
\* error), whatever wipes, restores and submits happened since its launch.
StaleJobLeavesLog ==
    [][JobSettled /\ TargetsOf(lastEvent'.id) = {} => messages' = messages]_vars

\* a job settled after a wipe or restore removed its target; the log still
\* holds a pending message of another id
StaleJobLeavesLogWitness ==
    /\ lastEvent.op = "jobSettled"
    /\ \A k \in 1..Len(messages) : messages[k].id # lastEvent.id
    /\ \E k \in 1..Len(messages) : messages[k].isImageLoading
    /\ used.wipes + used.restores > 0

\* C6 as stated: a job that succeeds while a message with its target id is
\* in the log gives exactly one message the image and clears its pending
\* flag; the text of that message and every other message stay as they were.
SuccessPatchesOnlyTarget ==
    [][JobSettled /\ lastEvent'.ok /\ TargetsOf(lastEvent'.id) # {} =>
          \E k \in TargetsOf(lastEvent'.id) :
              messages' = [messages EXCEPT ![k] = [@ EXCEPT !.image = lastEvent'.image,
                                                           !.isImageLoading = FALSE]]]_vars

\* C7 as stated: a job that fails while a message with its target id is in
\* the log changes nothing but the pending flag of one message, which
\* becomes false.
FailureClearsOnlyTarget ==
    [][JobSettled /\ ~lastEvent'.ok /\ TargetsOf(lastEvent'.id) # {} =>
          \E k \in TargetsOf(lastEvent'.id) :
              messages' = [messages EXCEPT ![k] = [@ EXCEPT !.isImageLoading = FALSE]]]_vars

\* C6 and C7 on logs whose ids are pairwise distinct
DistinctIds == \A a, b \in 1..Len(messages) : messages[a].id = messages[b].id => a = b

SuccessPatchesOnlyTargetIfDistinct ==
    [][JobSettled /\ lastEvent'.ok /\ TargetsOf(lastEvent'.id) # {} /\ DistinctIds =>
          \E k \in TargetsOf(lastEvent'.id) :
              messages' = [messages EXCEPT ![k] = [@ EXCEPT !.image = lastEvent'.image,
                                                           !.isImageLoading = FALSE]]]_vars

FailureClearsOnlyTargetIfDistinct ==
    [][JobSettled /\ ~lastEvent'.ok /\ TargetsOf(lastEvent'.id) # {} /\ DistinctIds =>
          \E k \in TargetsOf(lastEvent'.id) :
              messages' = [messages EXCEPT ![k] = [@ EXCEPT !.isImageLoading = FALSE]]]_vars

(***************************************************************************)
(* The session specification: chat submits while the tier is toggled, the  *)
(* memory is wiped and the effect of lines 82-88 re-creates the session,   *)
(* every initializeChat call ending in any of its outcomes.                *)
(***************************************************************************)
InitHandle == Init /\ gradioEndpoint = <<>>

NextHandle ==
    \/ hydrate(FALSE)
    \/ \E o1 \in InitOutcomes : \E o2 \in RetryOutcomes(o1) : BrainConnection(o1, o2) /\ UNCHANGED idb
    \/ setInputText(Hi)
    \/ toggleTier
    \/ handleSendMessage(TRUE, "ok", "ok", "ok")
    \/ \E o1 \in InitOutcomes : \E o2 \in RetryOutcomes(o1) :
          \E o3 \in LastInitOutcomes : handleSendMessage(FALSE, o1, o2, o3)
    \/ \E o3 \in LastInitOutcomes : AfterInit(o3)
    \/ Return
    \/ \E rejected \in BOOLEAN : ChatReply(rejected, Hey)
    \/ WipeConfirmed /\ UNCHANGED idb
    \/ \E o1 \in InitOutcomes : \E o2 \in RetryOutcomes(o1) : WipeDone(o1, o2) /\ UNCHANGED idb

SpecHandle == InitHandle /\ [][NextHandle]_vars

\* the user turn has been handed to chatSession.sendMessage (line 277);
\* send.ctx and send.boundTier are chatSession and currentTier at that moment
ChatForwarded == send.pc = "awaitChat"

\* C10: whenever a user turn is forwarded on the CHAT route a session exists
\* and currentTier is the requested tier; when the session was missing or
\* bound to another tier at the call, startChatWithHistory reconciled the
\* log and ran before the turn was forwarded.
HandleFreshAtSend ==
    ChatForwarded =>
        /\ send.ctx.live
        /\ send.boundTier = send.tier
        /\ send.stale =>
              /\ send.restored
              /\ send.handed = ReconcileHistory(send.snapshot)

\* a turn was forwarded on the pro tier after the session, bound to the free
\* tier at the call, was restored
HandleFreshAtSendWitness ==
    /\ ChatForwarded
    /\ send.stale
    /\ send.restored
    /\ send.tier = "pro"
    /\ send.snapshot # <<>>
    /\ Len(send.handed) > 0

(***************************************************************************)
(* Failure handling of initializeChat (part_000 25-62).  In SpecRecon the  *)
(* effect calls startChatWithHistory with every outcome of the SDK calls;  *)
(* lastEvent.threw tells whether the last initializeChat call it made      *)
(* threw, and chatSession is the handle that call left behind.             *)
(***************************************************************************)

\* C11: after a call to initializeChat a handle exists and the call has not
\* thrown, whatever the outcome of creating the remote context.
InitializeChatYieldsHandle ==
    StartChatDone => ~lastEvent.threw /\ chatSession.live

\* the part of C11 that the catch block of lines 49-61 does provide: when
\* the call returns normally a handle exists
InitializeChatReturnsWithHandle ==
    StartChatDone /\ ~lastEvent.threw => chatSession.live

(***************************************************************************)
(* Failure of the session restore inside a submit (part_000 201-214).      *)
(***************************************************************************)

\* sendMessageToEve has settled at once: with a result value, or by
\* rejecting (Thrown)
SubmitReturned == send.pc = "returning"

\* C12: when the session restore of a submit fails to create the remote
\* context, sendMessageToEve still resolves with a result value.
SubmitSurvivesInitFailure ==
    SubmitReturned /\ send.initFailed => "thrown" \notin DOMAIN send.result

(***************************************************************************)
(* Scenario: logs on which the reconciliation throws.  Every log holds an  *)
(* entry whose text is not a string, flagged as an error (skipped at line  *)
(* 326) or not (line 343 throws), between entries of the usual shapes; a   *)
(* handle may exist already.                                               *)
(***************************************************************************)
BadEntry == Msg(TsId(0), "user", NonString, <<>>, FALSE, FALSE)
BadErrorEntry == Msg(TsId(0), "user", NonString, <<>>, TRUE, FALSE)

InitReconFail ==
    /\ messages \in {a \o <<h>> \o b : a \in LogsUpTo(MaxLogLen - 2),
                                       b \in LogsUpTo(MaxLogLen - 2),
                                       h \in {BadEntry, BadErrorEntry}}
    /\ modelTier \in Tiers
    /\ isLoaded = TRUE
    /\ inputText = <<>>
    /\ attachment = <<>>
    /\ isThinking = FALSE
    /\ isImageEvolutionMode = FALSE
    /\ gradioEndpoint = <<>>
    /\ chatSession \in {NoSession, NewSession("free", <<[role |-> "user", parts |-> <<>>]>>)}
    /\ currentTier = "free"
    /\ now = 0
    /\ send = Idle
    /\ jobs = <<>>
    /\ effectPending = TRUE
    /\ wipe = Idle
    /\ restore = Idle
    /\ used = [submits |-> 0, wipes |-> 0, restores |-> 0, reloads |-> 0]
    /\ lastEvent = [op |-> "mount"]
    /\ idb = EmptyVault

NextReconFail ==
    \E o1 \in InitOutcomes : \E o2 \in RetryOutcomes(o1) : BrainConnection(o1, o2) /\ UNCHANGED idb

SpecReconFail == InitReconFail /\ [][NextReconFail]_vars

\* C13: when the reconciliation of the log throws, the handle is
\* initialized with an empty turn sequence and startChatWithHistory does
\* not throw.
ReconcileFailureYieldsEmptyHandle ==
    StartChatDone /\ lastEvent.reconcileThrew =>
        /\ ~lastEvent.threw
        /\ chatSession = NewSession(modelTier, <<>>)

\* the same, for the runs in which the initializeChat of the catch block
\* (line 386) does not throw
ReconcileFailureYieldsEmptyHandleIfCreated ==
    StartChatDone /\ lastEvent.reconcileThrew /\ ~lastEvent.threw =>
        chatSession = NewSession(modelTier, <<>>)

(***************************************************************************)
(* The image routes and the session (part_000 204-258).                    *)
(***************************************************************************)
ImageRoutes == {"IMAGE_EDIT", "IMAGE_GENERATE"}

\* a step of a submit: the call of handleSendMessage, its continuation after
\* the awaited restore, and the steps in which a remote call answers
SubmitStep == lastEvent'.op \in {"submit", "afterInit", "rephrased", "settle"}

\* the request the step belongs to
StepRequest == IF lastEvent'.op = "submit" THEN send' ELSE send

OnImageRoute == Route(StepRequest.att, StepRequest.force) \in ImageRoutes

HandleKept == chatSession' = chatSession /\ currentTier' = currentTier

\* C14: no step of a submit on the IMAGE_EDIT or IMAGE_GENERATE route
\* changes chatSession or currentTier, whatever the handle was before.
ImageSubmitLeavesHandle ==
    [][SubmitStep /\ OnImageRoute => HandleKept]_vars

\* the same for the submits that find a session bound to the requested
\* tier: line 205 is false and the image routes never use chatSession
ImageSubmitLeavesFreshHandle ==
    [][SubmitStep /\ OnImageRoute /\ ~StepRequest.stale => HandleKept]_vars

(***************************************************************************)
(* Scenario: the send cycle of App.tsx 309-422.  The user types, attaches  *)
(* (the file may finish loading while a send is in flight), toggles the    *)
(* image mode and asks to send at any moment; the service call takes every *)
(* route and ends with a reply, an error result or a rejection.            *)
(***************************************************************************)
InitSend ==
    /\ messages = <<Msg(NamedId("welcome"), "model", WelcomeText, <<>>, FALSE, FALSE)>>
    /\ modelTier = "free"
    /\ isLoaded = TRUE
    /\ inputText = <<>>
    /\ attachment = <<>>
    /\ isThinking = FALSE
    /\ isImageEvolutionMode = FALSE
    /\ gradioEndpoint = Endpoint
    /\ chatSession = NoSession
    /\ currentTier = "free"
    /\ now = 0
    /\ send = Idle
    /\ jobs = <<>>
    /\ effectPending = TRUE
    /\ wipe = Idle
    /\ restore = Idle
    /\ used = [submits |-> 0, wipes |-> 0, restores |-> 0, reloads |-> 0]
    /\ lastEvent = [op |-> "mount"]
    /\ idb = EmptyVault

\* the restore of line 207 succeeds, or both of its attempts fail
SendSteps ==
    \/ handleSendMessage(TRUE, "ok", "ok", "ok")
    \/ handleSendMessage(FALSE, "ok", "ok", "ok")
    \/ handleSendMessage(FALSE, "createFails", "createFails", "ok")

ReplySteps ==
    \/ AfterInit("ok")
    \/ Return
    \/ \E rejected \in BOOLEAN : EditReply(rejected, <<[text |-> Hey]>>)
    \/ RephraseReply
    \/ \E outcome \in {[call |-> "throws"],
                        [call |-> "returns",
                         data |-> <<[type |-> "object", url |-> ImageUrl]>>]} :
          GradioReply(outcome)
    \/ \E rejected \in BOOLEAN : ChatReply(rejected, Hey)

NextSend ==
    \/ BrainConnection("ok", "ok") /\ UNCHANGED idb
    \/ setInputText(Hi)
    \/ handleFileSelect
    \/ clearAttachment
    \/ toggleImageEvolutionMode
    \/ SendAborted
    \/ SendSteps
    \/ ReplySteps

SpecSend == InitSend /\ [][NextSend]_vars

SendRequested == lastEvent'.op \in {"submit", "sendAborted"}

\* C15: at most one send is in flight: a submit is accepted only when no
\* send is in flight, and a send requested while one is in flight is
\* refused without calling the service (the request in flight, the session
\* and the log stay as they are).
OneSendInFlight ==
    [][SendRequested /\ send # Idle =>
          /\ lastEvent'.op = "sendAborted"
          /\ send' = send
          /\ UNCHANGED serviceVars
          /\ messages' = messages]_vars

\* a send was requested, with an attachment ready to go, while the previous
\* send was waiting for its remote call, and was refused
OneSendInFlightWitness ==
    /\ lastEvent.op = "sendAborted"
    /\ send.pc \in {"awaitChat", "awaitEdit", "awaitGradio", "awaitRephrase"}
    /\ attachment # <<>>
    /\ isThinking

(***************************************************************************)
(* VisualJobs and the session (App.tsx 380-403 and 82-88).  The patch a    *)
(* job applies on completion is a setMessages call, and messages is a      *)
(* dependency of the session effect.                                       *)
(***************************************************************************)

\* C16: no step of a VisualJob changes chatSession or currentTier, and its
\* completion patch does not cause the session to be initialized again.
JobsNeverTouchHandle ==
    [][JobSettled => HandleKept /\ effectPending' = effectPending]_vars

\* the part that holds: the completion step itself leaves chatSession and
\* currentTier as they are
JobStepKeepsHandle == [][JobSettled => HandleKept]_vars

(***************************************************************************)
(* Two VisualJobs in flight (App.tsx 382-402).                             *)
(***************************************************************************)
JobResults(job) ==
    {generateVisualSelfie(job.description, job.endpoint, outcome) : outcome \in GradioOutcomes}

\* whichever of two jobs in flight with different target ids settles first,
\* and however each of them ends, the log after both patches is the same
JobsCommute ==
    \A i, j \in 1..Len(jobs) :
        jobs[i].id # jobs[j].id =>
            \A gi \in JobResults(jobs[i]), gj \in JobResults(jobs[j]) :
                JobPatch(JobPatch(messages, jobs[i], gi), jobs[j], gj)
                    = JobPatch(JobPatch(messages, jobs[j], gj), jobs[i], gi)

\* the positions of the log the step changes
ChangedAt == {k \in 1..Len(messages) : messages'[k] # messages[k]}

\* a job settles while a job with another target id is still in flight
SettledBesideAnother ==
    JobSettled /\ \E j \in 1..Len(jobs') : jobs'[j].id # lastEvent'.id

JobChangesOnlyItsMessage ==
    SettledBesideAnother =>
        /\ Len(messages') = Len(messages)
        /\ Cardinality(ChangedAt) <= 1
        /\ \A k \in ChangedAt : messages[k].id = lastEvent'.id

\* C17: of two jobs in flight with different target ids either may settle
\* first with the same final log, and the completion of each changes at
\* most one message, the one with its target id.
JobsIndependent == [][JobsCommute /\ JobChangesOnlyItsMessage]_vars

\* the order independence alone
JobsOrderIndependent == [][JobsCommute]_vars

\* the completion changes only messages with its target id (possibly more
\* than one)
JobChangesOnlyItsTargets ==
    [][SettledBesideAnother =>
          /\ Len(messages') = Len(messages)
          /\ \A k \in ChangedAt : messages[k].id = lastEvent'.id]_vars

(***************************************************************************)
(* A rejected remote call (part_000 214-312).                              *)
(***************************************************************************)

\* the step in which the chat send of line 277 or the image-edit call of
\* line 217 is rejected and sendMessageToEve settles
RemoteCallRejected ==
    /\ lastEvent'.op = "settle"
    /\ lastEvent'.rejected
    /\ send.pc \in {"awaitChat", "awaitEdit"}

\* C18: when the chat send or the image-edit call is rejected,
\* sendMessageToEve returns one result, flagged as an error and carrying
\* the fixed text, instead of throwing, and chatSession and currentTier are
\* what they were before the call failed.
RejectedCallYieldsErrorResult ==
    [][RemoteCallRejected =>
          /\ "thrown" \notin DOMAIN lastEvent'.result
          /\ lastEvent'.result.isError
          /\ lastEvent'.result.text = ConnectionInterrupted
          /\ lastEvent'.result.image = <<>>
          /\ HandleKept]_vars

\* the chat send of a submit was rejected while a session was live: the
\* log ends with the error reply
RejectedCallYieldsErrorResultWitness ==
    /\ lastEvent.op = "settle"
    /\ lastEvent.rejected
    /\ lastEvent.route = "CHAT"
    /\ chatSession.live
    /\ messages[Len(messages)].isError
    /\ messages[Len(messages)].text = ConnectionInterrupted

(***************************************************************************)
(* The send cycle under the assumption that every awaited call settles:    *)
(* the continuations of a submit (promise reactions and replies of the     *)
(* remote services) are taken eventually.                                  *)
(***************************************************************************)
SpecSendLive == InitSend /\ [][NextSend]_vars /\ WF_vars(ReplySteps)

\* C19: after an accepted submit isThinking eventually returns to false,
\* whether the service call ended with a reply, an error result or a
\* rejection, and whenever isThinking is false no send is in flight, so the
\* guard of line 310 accepts the next submit.
ThinkingEnds ==
    /\ [](~isThinking => send = Idle)
    /\ isThinking ~> ~isThinking

\* a submit whose service call rejected has been settled: the log ends with
\* the unexpected-error reply and isThinking is false again
ThinkingEndsWitness ==
    /\ lastEvent.op = "settle"
    /\ "thrown" \in DOMAIN lastEvent.result
    /\ messages[Len(messages)].text = UnexpectedError
    /\ ~isThinking
    /\ send = Idle

(***************************************************************************)
(* IMAGE_GENERATE without an image backend (part_000 248-257, 113-122).    *)
(***************************************************************************)

\* the step in which a request that took the IMAGE_GENERATE route with no
\* endpoint configured settles
GenerateWithoutEndpoint ==
    /\ lastEvent'.op = "settle"
    /\ send.route = "IMAGE_GENERATE"
    /\ IsBlank(send.endpoint)

\* the replies of lines 248-257 when the backend is configured but fails
BackendFailureTexts ==
    {GenerateResult(Endpoint, outcome).text :
        outcome \in {o \in GradioOutcomes : GenerateResult(Endpoint, o).isError}}

\* C20: on the IMAGE_GENERATE route with no endpoint configured the submit
\* returns (it does not throw) an error-flagged result with the
\* configure-the-endpoint text and no image, and that text is neither a
\* reply to a backend failure nor the connection-interrupted text.
NoEndpointAsksToConfigure ==
    [][GenerateWithoutEndpoint =>
          /\ "thrown" \notin DOMAIN lastEvent'.result
          /\ lastEvent'.result.isError
          /\ lastEvent'.result.text = NeedEndpoint
          /\ lastEvent'.result.image = <<>>
          /\ lastEvent'.result.text \notin BackendFailureTexts
          /\ lastEvent'.result.text # ConnectionInterrupted
          /\ BackendFailureTexts # {}]_vars

\* a generation request that needed no rephrasing was answered, with no
\* endpoint configured, by the configure-the-endpoint reply
NoEndpointAsksToConfigureWitness ==
    /\ lastEvent.op = "settle"
    /\ lastEvent.route = "IMAGE_GENERATE"
    /\ lastEvent.endpoint = <<>>
    /\ messages[Len(messages)].isError
    /\ messages[Len(messages)].text = NeedEndpoint
    /\ messages[Len(messages)].image = <<>>
    /\ messages[Len(messages) - 1].text = You

(***************************************************************************)
(* The first exchange, end to end, on the job specification.               *)
(***************************************************************************)
Waving == <<"w", "a", "v", "i", "n", "g">>

\* the request of the first submit of the run: "hi" without attachment, made
\* on an empty log
FirstHi(s) ==
    /\ used'.submits = 1
    /\ s.snapshot = <<>> /\ s.text = Hi /\ s.att = <<>> /\ ~s.force

\* the handle holds no turn of an earlier log (a handle built from a backup
\* stays in place until the session start of the next import has run)
NoEarlierTurns == ~chatSession.live \/ chatSession.history = <<>>

\* the step is the one in which the request of the submit of "hi" reaches
\* its first remote call
FirstHiDispatched ==
    /\ lastEvent'.op \in {"submit", "afterInit"}
    /\ send'.pc # "afterInit"
    /\ FirstHi(send')

\* the step is the arrival of the reply "hey! [SELFIE: waving]" to that submit
FirstHiAnswered ==
    /\ lastEvent'.op = "settle"
    /\ FirstHi(send)
    /\ lastEvent'.received = HeySelfie
    /\ Configured(lastEvent'.endpoint)

\* C21: a run's first submit, of "hi" on an empty log and with no turns of
\* an earlier log in the handle, leaves the handle initialized with an empty
\* history and takes the CHAT route; when the context answers
\* "hey! [SELFIE: waving]" with an endpoint configured, the reply message
\* has the text "hey!" and is image-pending, and a job with the cue "waving"
\* targets it; when a job resolves to "https://x/y.png", its pending message
\* "hey!" becomes {text "hey!", image "https://x/y.png", not pending}.
FirstExchangeEndToEnd ==
    [][/\ lastEvent'.op = "submit" /\ FirstHi(send') /\ NoEarlierTurns =>
             /\ chatSession'.live
             /\ chatSession'.history = <<>>
             /\ send'.restored => send'.handed = <<>>
       /\ FirstHiDispatched =>
             /\ send'.pc = "awaitChat"
             /\ send'.route = "CHAT"
             /\ send'.ctx = chatSession'
             /\ send'.ctx.live
       /\ FirstHiAnswered =>
             /\ messages' = Append(messages,
                                   Msg(lastEvent'.id, "model", Hey, <<>>, FALSE, TRUE))
             /\ jobs' = Append(jobs, [id |-> lastEvent'.id, description |-> Waving,
                                      endpoint |-> lastEvent'.endpoint])
       /\ JobSettled /\ lastEvent'.ok /\ lastEvent'.image = ImageUrl =>
             \A k \in 1..Len(messages) :
                messages[k].id = lastEvent'.id /\ messages[k].text = Hey
                    /\ messages[k].isImageLoading =>
                   messages'[k] = Msg(lastEvent'.id, "model", Hey, ImageUrl, FALSE, FALSE)
      ]_vars

\* the log after the whole exchange: it was empty (neither the welcome nor
\* the reset notice precedes "hi") and the tier is not that of a backup
FirstExchangeEndToEndWitness ==
    /\ lastEvent.op = "jobSettled"
    /\ lastEvent.ok
    /\ modelTier = "free"
    /\ Len(messages) = 2
    /\ messages[1].role = "user" /\ messages[1].text = Hi
    /\ messages[2] = Msg(messages[2].id, "model", Hey, ImageUrl, FALSE, FALSE)
    /\ messages[2].id = lastEvent.id

(***************************************************************************)
(* The reconciliation of well-formed logs: logs made of up to MaxExchanges *)
(* exchanges, each a user entry followed by a model entry, none flagged as *)
(* an error.  The session is started from such a log as in SpecRecon.      *)
(***************************************************************************)
MaxExchanges == 2

ExchangeUserEntries == {h \in LogEntries : h.role = "user" /\ ~h.isError}
ExchangeModelEntries == {h \in LogEntries : h.role = "model" /\ ~h.isError}

RECURSIVE ExchangeLogs(_)
ExchangeLogs(n) ==
    IF n = 0 THEN {<<>>}
    ELSE ExchangeLogs(n - 1)
           \cup {log \o <<u, m>> :
                    log \in {l \in ExchangeLogs(n - 1) : Len(l) = 2 * (n - 1)},
                    u \in ExchangeUserEntries, m \in ExchangeModelEntries}

InitExchanges ==
    /\ messages \in ExchangeLogs(MaxExchanges)
    /\ modelTier = "free"
    /\ isLoaded = TRUE
    /\ inputText = <<>>
    /\ attachment = <<>>
    /\ isThinking = FALSE
    /\ isImageEvolutionMode = FALSE
    /\ gradioEndpoint = <<>>
    /\ chatSession = NoSession
    /\ currentTier = "free"
    /\ now = 0
    /\ send = Idle
    /\ jobs = <<>>
    /\ effectPending = TRUE
    /\ wipe = Idle
    /\ restore = Idle
    /\ used = [submits |-> 0, wipes |-> 0, restores |-> 0, reloads |-> 0]
    /\ lastEvent = [op |-> "mount"]
    /\ idb = EmptyVault

SpecExchanges == InitExchanges /\ [][NextRecon]_vars

\* user-first, model-last, strictly alternating, no error entries
Alternating(log) ==
    /\ Len(log) > 0
    /\ log[1].role = "user"
    /\ log[Len(log)].role = "model"
    /\ \A k \in 1..(Len(log) - 1) : log[k].role # log[k + 1].role
    /\ \A k \in 1..Len(log) : ~log[k].isError

\* the text a turn carries: that of its text part, or none
TurnText(turn) ==
    LET texts == {k \in 1..Len(turn.parts) : "text" \in DOMAIN turn.parts[k]}
    IN  IF texts = {} THEN <<>> ELSE turn.parts[CHOOSE k \in texts : TRUE].text

\* C22 as stated: an alternating log without error entries whose user
\* entries all have some content (a text or an image that is not empty) is
\* reconciled into a sequence of the same length with, at every position,
\* the role and the text of the entry.
ReconcilesToItself ==
    /\ StartChatDone
    /\ Alternating(lastEvent.log)
    /\ \A k \in 1..Len(lastEvent.log) :
          lastEvent.log[k].role = "user" =>
             lastEvent.log[k].text # <<>> \/ lastEvent.log[k].image # <<>>
    => /\ Len(lastEvent.handed) = Len(lastEvent.log)
       /\ \A k \in 1..Len(lastEvent.log) :
             /\ lastEvent.handed[k].role = lastEvent.log[k].role
             /\ TurnText(lastEvent.handed[k]) = lastEvent.log[k].text

\* an entry of the log that yields a turn of its own: a user entry with an
\* inline image (a data URL) or a text that is not blank, a model entry with
\* a text
Speaks(h) ==
    IF h.role = "user"
    THEN (h.image # <<>> /\ StartsWith(h.image, DataScheme)) \/ Trim(h.text) # <<>>
    ELSE h.text # <<>>

\* C22, amended: when moreover every user entry has an inline image or a
\* text that is not blank and every model entry has a text, the reconciled
\* sequence has the length of the log and at every position the role of the
\* entry and the text of the entry (none for a blank text), after the inline
\* image of a user entry that has one.
WellFormedReconcilesToItself ==
    /\ StartChatDone
    /\ Alternating(lastEvent.log)
    /\ \A k \in 1..Len(lastEvent.log) : Speaks(lastEvent.log[k])
    => /\ Len(lastEvent.handed) = Len(lastEvent.log)
       /\ \A k \in 1..Len(lastEvent.log) :
             LET h == lastEvent.log[k]
                 turn == lastEvent.handed[k]
             IN  /\ turn.role = h.role
                 /\ TurnText(turn) = IF Trim(h.text) # <<>> THEN h.text ELSE <<>>
                 /\ Len(turn.parts) >= 1
                 /\ IF h.role = "user" /\ h.image # <<>>
                    THEN /\ "inlineData" \in DOMAIN turn.parts[1]
                         /\ Len(turn.parts) = IF Trim(h.text) # <<>> THEN 2 ELSE 1
                    ELSE turn.parts = <<[text |-> h.text]>>

\* two exchanges, the second opened by an image without text
WellFormedReconcilesToItselfWitness ==
    /\ StartChatDone
    /\ Len(lastEvent.log) = 4
    /\ \A k \in 1..4 : Speaks(lastEvent.log[k])
    /\ lastEvent.log[3].image = Png
    /\ Len(lastEvent.handed) = 4

(***************************************************************************)
(* The storage specification: saveSession, clearSession and                *)
(* restoreFromBackup of storageService.ts called in any order with any     *)
(* arguments, at most MaxPending of the calls unsettled at a time, each    *)
(* call succeeding or failing.                                             *)
(***************************************************************************)
VaultLogs ==
    {<<>>,
     <<Msg(TsId(0), "user", Hi, <<>>, FALSE, FALSE)>>,
     <<Msg(TsId(0), "user", Hi, <<>>, FALSE, FALSE),
       Msg(TsId(1), "model", Hey, <<>>, FALSE, TRUE)>>}

CallSaveSession(sessionMessages, tier) ==
    /\ Len(idb.pending) < MaxPending
    /\ idb' = Issue(idb, saveSession(sessionMessages, tier, "call"))
    /\ lastEvent' = [op |-> "saveSession"]
    /\ UNCHANGED <<appVars, serviceVars, now, send, jobs, effectPending, wipe, restore,
                   used>>

CallClearSession ==
    /\ Len(idb.pending) < MaxPending
    /\ idb' = Issue(idb, clearSession("call"))
    /\ lastEvent' = [op |-> "clearSession"]
    /\ UNCHANGED <<appVars, serviceVars, now, send, jobs, effectPending, wipe, restore,
                   used>>

CallRestoreFromBackup(data) ==
    /\ Len(idb.pending) < MaxPending
    /\ idb' = Issue(idb, restoreFromBackup(data, "call"))
    /\ lastEvent' = [op |-> "restoreFromBackup"]
    /\ UNCHANGED <<appVars, serviceVars, now, send, jobs, effectPending, wipe, restore,
                   used>>

NextVault ==
    \/ \E log \in VaultLogs, tier \in Tiers : CallSaveSession(log, tier)
    \/ CallClearSession
    \/ \E log \in VaultLogs, tier \in Tiers :
          CallRestoreFromBackup([messages |-> log, tier |-> tier, lastUpdated |-> 0])
    \/ \E ok \in BOOLEAN : SaveSettles(ok)

SpecVault == Init /\ [][NextVault]_vars

\* C23: the object store holds at most one record, and a record it holds
\* has the fixed global key.
AtMostOneSessionRecord ==
    /\ Cardinality(idb.sessions) <= 1
    /\ \A r \in idb.sessions : r.id = GLOBAL_SESSION_KEY

\* a put has completed on a store that held a record, with another log
AtMostOneSessionRecordWitness ==
    /\ lastEvent.op = "persisted"
    /\ lastEvent.ok
    /\ lastEvent.kind = "put"
    /\ lastEvent.before = 1
    /\ idb.lost
    /\ \E r \in idb.sessions : Len(r.messages) = 2 /\ r.tier = "pro"

(***************************************************************************)
(* The persistence specification: one chat submit whose reply launches a   *)
(* visual job, a switch to the pro tier, and a wipe, a backup restore or a *)
(* page reload, with every persistence operation settling at any later     *)
(* time, by success or by failure.  The effects run while fewer than       *)
(* MaxPending operations are unsettled.                                    *)
(***************************************************************************)
InitPersist == Init /\ gradioEndpoint = Endpoint

NextPersist ==
    \/ hydrate(FALSE)
    \/ Len(idb.pending) < MaxPending /\ EffectsRun("ok", "ok")
    \/ setInputText(Hi)
    \/ modelTier = "free" /\ toggleTier
    \/ used.submits = 0 /\ handleSendMessage(FALSE, "ok", "ok", "ok")
    \/ AfterInit("ok")
    \/ ChatReply(FALSE, HeySelfie)
    \/ \E i \in 1..Len(jobs) : JobSettles(i, [call |-> "throws"])
    \/ used.restores + used.reloads = 0 /\ WipeStarts
    \/ WipeAborts
    \/ WipeProceeds("ok", "ok")
    \/ used.wipes + used.reloads = 0 /\ \E json \in Backups : RestoreStarts(json)
    \/ RestoreAborts
    \/ RestoreProceeds("ok", "ok")
    \/ \E ok \in BOOLEAN : SaveSettles(ok)
    \/ used.wipes + used.restores = 0 /\ Reload

SpecPersist == InitPersist /\ [][NextPersist]_vars

\* nothing is left to do for the persistence: the effects have run, every
\* operation issued has completed and none has failed or was abandoned
Quiet ==
    /\ isLoaded
    /\ ~effectPending
    /\ wipe = Idle
    /\ restore = Idle
    /\ idb.pending = <<>>
    /\ ~idb.lost

Wiped == used.wipes > 0 /\ wipe = Idle /\ idb.wiped # <<>>

StoredMessages ==
    UNION {{r.messages[k] : k \in 1..Len(r.messages)} : r \in idb.sessions}

\* C24: after a wipe, once the persistence operations have all completed,
\* the store holds no message that was in the log the wipe replaced.  (A
\* reset notice of an earlier wipe is left aside: when the clock has not
\* advanced it cannot be told from the new one.)
WipeRemovesSnapshot ==
    Wiped /\ Quiet =>
        \A m \in StoredMessages :
            (\E k \in 1..Len(idb.wiped) : idb.wiped[k] = m) => m.text = ResetText

\* the wipe replaced a log that held the user's "hi"; the store now holds
\* the reset notice alone
WipeRemovesSnapshotWitness ==
    /\ Wiped
    /\ Quiet
    /\ \E k \in 1..Len(idb.wiped) : idb.wiped[k].text = Hi
    /\ \E r \in idb.sessions : Len(r.messages) = 1 /\ r.messages[1].text = ResetText
    /\ lastEvent.op = "persisted"

\* C25 as stated: in a quiet state, unless the log is the default welcome,
\* the store holds a snapshot, and its messages and tier are those in memory.
LastWriteWins ==
    Quiet /\ ~DefaultWelcome(messages) =>
        idb.sessions = {StoredSession(messages, modelTier)}

\* C25, amended: the empty log is not saved either.
LastWriteWinsUnlessEmpty ==
    Quiet /\ Len(messages) > 0 /\ ~DefaultWelcome(messages) =>
        idb.sessions = {StoredSession(messages, modelTier)}

\* the log holds an exchange made on the pro tier and the last save, which
\* replaced an earlier snapshot, has completed
LastWriteWinsUnlessEmptyWitness ==
    /\ Quiet
    /\ modelTier = "pro"
    /\ Len(messages) = 3
    /\ send = Idle
    /\ lastEvent.op = "persisted"
    /\ lastEvent.before = 1
    /\ idb.sessions = {StoredSession(messages, modelTier)}

(***************************************************************************)
(* When a reply is created image-pending, on the route specification.      *)
(***************************************************************************)
\* the step is the end of a submit; lastEvent' holds the route, the text
\* received from the chat context, the endpoint and the result
SubmitSettled == lastEvent'.op = "settle"

\* the submit took the CHAT route, the context answered, its answer holds
\* a marker and the endpoint is not blank
MarkerAnsweredWithBackend ==
    /\ lastEvent'.route = "CHAT"
    /\ ~lastEvent'.rejected
    /\ "thrown" \notin DOMAIN lastEvent'.result
    /\ MarkerStarts(lastEvent'.received) # {}
    /\ Configured(lastEvent'.endpoint)

\* C26: the reply message of a submit is created image-pending and a job
\* for its id is launched exactly when the submit took the CHAT route, the
\* reply held a marker and the endpoint was not blank; otherwise the reply
\* message is not pending and no job is launched (so none on IMAGE_EDIT, on
\* IMAGE_GENERATE, or for an error result); a chat reply without a marker is
\* returned as received, without a cue.
PendingIffMarkerAndBackend ==
    [][SubmitSettled =>
          LET reply == messages'[Len(messages')]
          IN  /\ Len(messages') = Len(messages) + 1
              /\ reply.id = lastEvent'.id
              /\ IF MarkerAnsweredWithBackend
                 THEN /\ reply.isImageLoading
                      /\ jobs' = Append(jobs, [id |-> reply.id,
                                               description |-> lastEvent'.result.visualPrompt,
                                               endpoint |-> lastEvent'.endpoint])
                      /\ lastEvent'.result.visualPrompt # <<>>
                 ELSE /\ ~reply.isImageLoading
                      /\ jobs' = jobs
              /\ lastEvent'.route = "CHAT" /\ ~lastEvent'.rejected
                    /\ "thrown" \notin DOMAIN lastEvent'.result
                    /\ MarkerStarts(lastEvent'.received) = {} =>
                    /\ lastEvent'.result.text = lastEvent'.received
                    /\ lastEvent'.result.visualPrompt = <<>>
                    /\ reply.text = lastEvent'.received
      ]_vars

\* a chat reply with a marker arrived with the endpoint configured: the
\* reply message is pending and the newest job targets it
PendingIffMarkerAndBackendWitness ==
    /\ lastEvent.op = "settle"
    /\ lastEvent.route = "CHAT"
    /\ lastEvent.received = HeySelfie
    /\ messages[Len(messages)].isImageLoading
    /\ jobs # <<>>
    /\ jobs[Len(jobs)].id = messages[Len(messages)].id

\* an image was generated on the IMAGE_GENERATE route: no job
NoJobOffChatWitness ==
    /\ lastEvent.op = "settle"
    /\ lastEvent.route = "IMAGE_GENERATE"
    /\ ~lastEvent.result.isError
    /\ messages[Len(messages)].image # <<>>
    /\ jobs = <<>>

(***************************************************************************)
(* The parts of the reconciled turns, on the reconciliation specification. *)
(***************************************************************************)
\* a user entry without a usable image (an inline data URL) whose text is
\* blank after trimming
Silent(h) ==
    /\ h.role = "user"
    /\ ~h.isError
    /\ ~(h.image # <<>> /\ StartsWith(h.image, DataScheme))
    /\ Trim(h.text) = <<>>

\* a model entry without text
Wordless(h) == h.role = "model" /\ ~h.isError /\ h.text = <<>>

PlaceholderTurn == [role |-> "model", parts |-> <<[text |-> Placeholder]>>]

\* C27: every turn handed over has at least one part; a silent user entry
\* yields no turn (the log without it reconciles to the same sequence, and a
\* log of silent entries to the empty one); a model entry without text
\* yields what a model entry with the placeholder text yields, and right
\* after a single user turn that is a turn with the placeholder as its only
\* part.
EveryTurnHasAPart ==
    StartChatDone /\ ~lastEvent.reconcileThrew =>
        LET log == lastEvent.log
            handed == lastEvent.handed
        IN  /\ \A k \in 1..Len(handed) : Len(handed[k].parts) >= 1
            /\ \A k \in 1..Len(log) :
                  Silent(log[k]) => ReconcileHistory(RemoveAt(log, k)) = handed
            /\ (\A k \in 1..Len(log) : Silent(log[k])) => handed = <<>>
            /\ \A k \in 1..Len(log) :
                  Wordless(log[k]) =>
                     ReconcileHistory([log EXCEPT ![k].text = Placeholder]) = handed
            /\ Len(log) = 2 /\ log[1].role = "user" /\ ~log[1].isError
                  /\ ~Silent(log[1]) /\ Wordless(log[2]) =>
                  /\ Len(handed) = 2
                  /\ handed[2] = PlaceholderTurn

\* a user entry, a model entry without text and a silent user entry: two
\* turns, the second with the placeholder
EveryTurnHasAPartWitness ==
    /\ StartChatDone
    /\ Len(lastEvent.log) = 3
    /\ lastEvent.log[1].text = TextA
    /\ Wordless(lastEvent.log[2])
    /\ Silent(lastEvent.log[3])
    /\ Len(lastEvent.handed) = 2
    /\ lastEvent.handed[2] = PlaceholderTurn

(***************************************************************************)
(* Pending messages and their jobs, on the persistence specification.      *)
(***************************************************************************)
HasJob(id) == \E i \in 1..Len(jobs) : jobs[i].id = id

\* C28: every message whose image-pending flag is set has a job targeting
\* its id in flight.
PendingHasJob ==
    \A k \in 1..Len(messages) : messages[k].isImageLoading => HasJob(messages[k].id)

\* the property holds as long as the log comes neither from the store nor
\* from a backup
PendingHasJobUnlessLoaded ==
    used.reloads = 0 /\ used.restores = 0 => PendingHasJob

\* after a reload the hydrated log holds a pending message and no job exists
PendingAfterReload ==
    /\ used.reloads = 1
    /\ isLoaded
    /\ jobs = <<>>
    /\ \E k \in 1..Len(messages) : messages[k].isImageLoading

(***************************************************************************)
(* The job specification with the scheduling of one process lifetime: the  *)
(* continuation of an await runs, and the backend call of a job in flight  *)
(* settles.                                                                *)
(***************************************************************************)
JobSteps == \E i \in 1..Len(jobs), outcome \in GradioOutcomes : JobSettles(i, outcome)

SpecJobsLive ==
    InitJobs /\ [][NextJobs]_vars /\ WF_vars(AfterInit("ok")) /\ WF_vars(JobSteps)

MessageIds == {TsId(t) : t \in 0..(MaxTime + 1)}

Pending(id) ==
    \E k \in 1..Len(messages) : messages[k].id = id /\ messages[k].isImageLoading

\* C29: a message that is image-pending while a job for its id is in flight
\* is eventually not pending or not in the log.
PendingEventuallyClears ==
    \A id \in MessageIds : (Pending(id) /\ HasJob(id)) ~> ~Pending(id)

\* the job of a pending message has failed and the message is still in the
\* log, not pending and without image
PendingEventuallyClearsWitness ==
    /\ lastEvent.op = "jobSettled"
    /\ ~lastEvent.ok
    /\ \E k \in 1..Len(messages) :
          /\ messages[k].id = lastEvent.id
          /\ messages[k].text = Hey
          /\ messages[k].image = <<>>
          /\ ~messages[k].isImageLoading

(***************************************************************************)
(* The handle while a chat send is in flight.                              *)
(***************************************************************************)
ChatInFlight == send.pc = "awaitChat"

\* C30: while a chat send is in flight, the context that was asked for the
\* reply is the process-wide handle.
InFlightContextIsHandle == ChatInFlight => send.ctx = chatSession

\* C30, the step form: no step taken while a chat send is in flight and
\* leaving it in flight creates a session or changes the handle.
HandleStableInFlight ==
    [][ChatInFlight /\ send'.pc = "awaitChat" =>
          chatSession' = chatSession /\ lastEvent'.op # "startChat"]_vars

\* the reply of a chat send has arrived from a context that was no longer
\* the handle: the session effect ran in between and the handle's history
\* already holds the user turn of that send and a placeholder reply
ReplyFromReplacedContext ==
    /\ lastEvent.op = "settle"
    /\ Len(messages) = 3
    /\ messages[3].role = "model"
    /\ chatSession.live
    /\ Len(chatSession.history) = 2
    /\ chatSession.history[1].role = "user"
    /\ effectPending
    /\ used.wipes + used.restores = 0

(***************************************************************************)
(* What the receiving context of a chat send was seeded with.              *)
(***************************************************************************)
UserMessages(log) == {k \in 1..Len(log) : log[k].role = "user"}

UserTurns(session) ==
    IF session.live
    THEN {k \in 1..Len(session.history) : session.history[k].role = "user"}
    ELSE {}

\* the step hands the user turn of a submit to chatSession.sendMessage
Forwards == send.pc # "awaitChat" /\ send'.pc = "awaitChat"

\* C31: when a chat send forwards the user message of a submit made on a log
\* without user messages, the context that receives it was seeded with a
\* history without user turns, so the message reaches it exactly once.
ForwardedExactlyOnce ==
    [][Forwards /\ UserMessages(send'.snapshot) = {} =>
          UserTurns(send'.ctx) = {}]_vars

\* the same for a send that is forwarded in the submit step itself, without
\* an awaited session start, while no wipe or restore has replaced the log
ForwardedOnceWithoutRestore ==
    [][Forwards /\ UserMessages(send'.snapshot) = {} /\ ~send'.restored
          /\ used.wipes + used.restores = 0 =>
          UserTurns(send'.ctx) = {}]_vars

\* a chat send is in flight whose context was seeded with the very user
\* message it was sent: the session effect ran between the submit and the
\* continuation of the awaited session start
ForwardedTwice ==
    /\ send.pc = "awaitChat"
    /\ send.restored
    /\ UserMessages(send.snapshot) = {}
    /\ UserTurns(send.ctx) # {}
    /\ used.wipes + used.restores = 0

(***************************************************************************)
(* The bound tier and the model of the live context.                       *)
(***************************************************************************)
\* C32: whenever a handle exists, currentTier is the tier whose chat model
\* the context was created with.
BoundTierIsContextTier == chatSession.live => currentTier = chatSession.model

\* after a session start that returned normally the two agree
BoundTierAfterStart ==
    lastEvent.op = "startChat" /\ ~lastEvent.threw /\ chatSession.live =>
        currentTier = chatSession.model

\* a session start threw after the handle existed: the context of the free
\* tier is still the handle and the bound tier already names the other tier
BoundTierAhead ==
    /\ lastEvent.op = "startChat"
    /\ lastEvent.threw
    /\ chatSession.live
    /\ chatSession.model = "free"
    /\ currentTier = "pro"

(***************************************************************************)
(* The context of the first chat send after a wipe.                        *)
(***************************************************************************)
\* the log of the request is a wiped log without submits since the wipe: the
\* reset message, then at most replies that arrived after the wipe
OnWipedLog(s) ==
    /\ used.wipes > 0
    /\ s.snapshot # <<>>
    /\ s.snapshot[1].text = ResetText
    /\ UserMessages(s.snapshot) = {}

\* C33: the handle that receives the first chat send after a wipe holds no
\* turn at all, so none that comes from a message of the log before the
\* wipe, also when a reply or a job that was in flight at the wipe settled
\* in between.  (A send that first awaits a session start is left to C31.)
NoTurnSurvivesWipe ==
    [][Forwards /\ OnWipedLog(send') /\ ~send'.restored =>
          send'.ctx.live /\ send'.ctx.history = <<>>]_vars

\* a submit was answered after the wipe that came while it was in flight, a
\* job settled after the wipe, and the next send has been forwarded to a
\* context without turns
NoTurnSurvivesWipeWitness ==
    /\ send.pc = "awaitChat"
    /\ OnWipedLog(send)
    /\ Len(send.snapshot) = 2
    /\ ~send.restored
    /\ send.ctx.live
    /\ send.ctx.history = <<>>
    /\ used.submits = 2

\* the send after a wipe went to the context of before the wipe
PreWipeTurnsSent ==
    /\ send.pc = "awaitChat"
    /\ OnWipedLog(send)
    /\ ~send.restored
    /\ UserTurns(send.ctx) # {}

(***************************************************************************)
(* The reply of a submit that a wipe overtook.                             *)
(***************************************************************************)
\* the log has been wiped since the request s was submitted: the log starts
\* with the reset message and the log s was submitted on did not
WipedSince(s) ==
    /\ used.wipes > 0
    /\ messages # <<>>
    /\ messages[1].text = ResetText
    /\ (s.snapshot = <<>> \/ s.snapshot[1].text # ResetText)

\* C34: the reply or error message of a submit that was in flight when the
\* wipe happened is not appended to the wiped log.
StaleReplyNotAppended ==
    [][lastEvent'.op = "settle" /\ WipedSince(send) => messages' = messages]_vars

\* the wiped log holds the reset message and the reply to a submit made
\* before the wipe, whose user message is gone
ReplyOnWipedLog ==
    /\ lastEvent.op = "settle"
    /\ used.submits = 1
    /\ used.wipes = 1
    /\ Len(messages) = 2
    /\ messages[1].text = ResetText
    /\ messages[2].role = "model"
    /\ UserMessages(messages) = {}

(***************************************************************************)
(* The two messages of a submit.                                           *)
(***************************************************************************)
AppendsOne(log, logAfter) ==
    /\ Len(logAfter) = Len(log) + 1
    /\ SubSeq(logAfter, 1, Len(log)) = log

Last(log) == log[Len(log)]

ServiceFailed(result) == "thrown" \in DOMAIN result \/ result.isError

\* C35: an accepted submit appends exactly one message, the user message
\* with the submitted text and attachment, in the step that starts the
\* service call; the log stays as it is while the call is awaited; the step
\* in which the call settles appends exactly one message, a model message
\* behind that user message, error-flagged exactly when the service returned
\* an error result or threw.
SubmitAppendsUserThenModel ==
    [][/\ lastEvent'.op = "submit" =>
            /\ AppendsOne(messages, messages')
            /\ Last(messages').role = "user"
            /\ Last(messages').text = inputText
            /\ Last(messages').image = attachment
            /\ ~Last(messages').isError
       /\ send.pc # "idle" /\ send'.pc # "idle" => messages' = messages
       /\ lastEvent'.op = "settle" =>
            /\ AppendsOne(messages, messages')
            /\ Last(messages).role = "user"
            /\ Last(messages).text = send.text
            /\ Last(messages').role = "model"
            /\ Last(messages').isError <=> ServiceFailed(lastEvent'.result)]_vars

\* a submit whose service call returned an error result: the log ends with
\* the user message and one error-flagged model message
SubmitAppendsUserThenModelWitness ==
    /\ lastEvent.op = "settle"
    /\ "thrown" \notin DOMAIN lastEvent.result
    /\ lastEvent.result.isError
    /\ Len(messages) = 3
    /\ messages[2].role = "user"
    /\ messages[3].role = "model"
    /\ messages[3].isError

\* the appends alone, which also hold when a wipe or a restore replaces the
\* log while the call is awaited
SubmitAppendsOneEach ==
    [][/\ lastEvent'.op = "submit" =>
            AppendsOne(messages, messages') /\ Last(messages').role = "user"
       /\ lastEvent'.op = "settle" =>
            /\ AppendsOne(messages, messages')
            /\ Last(messages').role = "model"
            /\ Last(messages').isError <=> ServiceFailed(lastEvent'.result)]_vars

(***************************************************************************)
(* The ids of the log: Date.now() for user and reset messages (App.tsx     *)
(* 316, 181), Date.now() + 1 for replies and error replies (357, 366, 409).*)
(***************************************************************************)
\* C36: as long as no backup was restored, the ids of the log are pairwise
\* distinct.
LogIdsPairwiseDistinct ==
    used.restores = 0 =>
        \A i, j \in 1..Len(messages) : i # j => messages[i].id # messages[j].id

\* a reply created at time 0 and the user message submitted one millisecond
\* later carry the same id
ReplyAndNextSubmitShareId ==
    /\ used.restores = 0
    /\ \E i \in 1..Len(messages) :
          /\ i < Len(messages)
          /\ messages[i].role = "model"
          /\ messages[i].id = TsId(1)
          /\ messages[i + 1].role = "user"
          /\ messages[i + 1].id = TsId(1)
    /\ now = 1

(***************************************************************************)
(* Hydration and the save effect over two process lifetimes: the stored    *)
(* session is loaded, cannot be loaded because the database does not open, *)
(* or the load throws.                                                     *)
(***************************************************************************)
NextHydrate ==
    \/ \E loadThrows \in BOOLEAN : hydrate(loadThrows)
    \/ hydrateWithoutDatabase
    \/ Len(idb.pending) < MaxPending /\ EffectsRun("ok", "ok")
    \/ setInputText(Hi)
    \/ handleSendMessage(FALSE, "ok", "ok", "ok")
    \/ AfterInit("ok")
    \/ ChatReply(FALSE, Hey)
    \/ \E ok \in BOOLEAN : SaveSettles(ok)
    \/ Reload

SpecHydrate == InitPersist /\ [][NextHydrate]_vars

StartupIds == {NamedId("welcome"), NamedId("welcome_error")}

PlaceholderOnly(log) == Len(log) = 1 /\ log[1].id \in StartupIds

\* the step calls saveSession
SaveIssued ==
    /\ Len(idb'.pending) = Len(idb.pending) + 1
    /\ Last(idb'.pending).kind = "put"

\* C37: no save is issued for a log that consists only of a startup
\* placeholder message (the welcome or the load-error notice).
NoSaveOfPlaceholder ==
    [][SaveIssued => ~PlaceholderOnly(Last(idb'.pending).data.messages)]_vars

\* the same for the welcome message alone, which line 97 recognises
NoSaveOfWelcome ==
    [][SaveIssued =>
          LET log == Last(idb'.pending).data.messages
          IN  ~(Len(log) = 1 /\ log[1].id = NamedId("welcome"))]_vars

\* in the second lifetime the load threw, and the save of the load-error
\* notice has replaced the session stored by the first lifetime
NoticeReplacedSnapshot ==
    /\ used.reloads = 1
    /\ lastEvent.op = "persisted"
    /\ lastEvent.ok
    /\ lastEvent.before = 1
    /\ \E r \in idb.sessions :
          /\ Len(r.messages) = 1
          /\ r.messages[1].id = NamedId("welcome_error")

\* in the second lifetime the database did not open: the log is the welcome
\* message, the effects have run, and the stored session is untouched
WelcomeLeavesSnapshot ==
    /\ used.reloads = 1
    /\ isLoaded
    /\ ~effectPending
    /\ DefaultWelcome(messages)
    /\ idb.pending = <<>>
    /\ \E r \in idb.sessions : Len(r.messages) = 3

(***************************************************************************)
(* The shape of the reconciled turn sequence.                              *)
(***************************************************************************)
StrictlyAlternating(turns) ==
    \A k \in 1..(Len(turns) - 1) : turns[k].role # turns[k + 1].role

\* C38: for every log, the turn sequence startChatWithHistory hands on is
\* strictly alternating and of even length.
ReconciledAlternatesEvenLength ==
    StartChatDone =>
        /\ StrictlyAlternating(lastEvent.handed)
        /\ Len(lastEvent.handed) % 2 = 0

\* a log of two user messages and a model message, a run the merge pass had
\* to join, was handed on as one user turn and one model turn
ReconciledAlternatesEvenLengthWitness ==
    /\ StartChatDone
    /\ Len(lastEvent.log) = 3
    /\ lastEvent.log[1].role = "user"
    /\ lastEvent.log[2].role = "user"
    /\ lastEvent.log[3].role = "model"
    /\ \A k \in 1..3 : ~lastEvent.log[k].isError
    /\ Len(lastEvent.handed) = 2
    /\ Len(lastEvent.handed[1].parts) = 2

(***************************************************************************)
(* A submit that is refused.                                               *)
(***************************************************************************)
OnlySpace(text) == \A k \in 1..Len(text) : IsSpaceChar(text[k])

NothingToSend == OnlySpace(inputText) /\ attachment = <<>>

\* C39: a submit requested with blank text and no attachment, or while a
\* send is in flight, changes nothing: the log, the input text, the
\* attachment, the thinking flag and the handle stay as they are, and no
\* request and no job is started.
RefusedSubmitChangesNothing ==
    [][SendRequested /\ (NothingToSend \/ send # Idle) =>
          /\ lastEvent'.op = "sendAborted"
          /\ UNCHANGED <<messages, inputText, attachment, isThinking, isImageEvolutionMode>>
          /\ UNCHANGED serviceVars
          /\ send' = send
          /\ jobs' = jobs]_vars

\* a submit with nothing to send was refused while no send was in flight,
\* after an earlier submit had been answered
RefusedSubmitChangesNothingWitness ==
    /\ lastEvent.op = "sendAborted"
    /\ send = Idle
    /\ ~isThinking
    /\ NothingToSend
    /\ Len(messages) = 3

\* a submit of a text of white space only was refused
WhiteSpaceRefused ==
    /\ lastEvent.op = "sendAborted"
    /\ send = Idle
    /\ inputText = <<Sp>>
    /\ attachment = <<>>

====
